---------------------------- MODULE Spec2Model ----------------------------
(***************************************************************************)
(* A model of go-pjs, a parser of the Java Object Serialization Stream     *)
(* Protocol.  The parser is a recursive-descent walker over a byte buffer  *)
(* with a one-byte lookahead (Smooth), a handle counter and a list of the  *)
(* class descriptions read so far.  The recursion of the Go code is kept   *)
(* as an explicit stack of frames; every function of the source is an      *)
(* operator from parser state to parser state, and one action applies it.  *)
(***************************************************************************)
EXTENDS Integers, Sequences, FiniteSets, TLC

\* sop: the parser.  twin: a second parser, for the laws that compare two
\* parses.  ticks: the parity of the number of steps taken.
VARIABLES sop, twin, ticks

vars == <<sop, twin, ticks>>

(***************************************************************************)
(* Wire constants (src/pkg/ph.go) and the stream constants the walker      *)
(* compares against.                                                       *)
(***************************************************************************)
STREAM_MAGIC1 == 172
STREAM_MAGIC2 == 237
STREAM_VERSION == 5
RMI_Call == 80
RMI_ReturnData == 81
RMI_Ping == 82
RMI_PingAck == 83
RMI_DgcAck == 84
TC_NULL == 112
TC_REFERENCE == 113
TC_CLASSDESC == 114
TC_OBJECT == 115
TC_STRING == 116
TC_ARRAY == 117
TC_CLASS == 118
TC_BLOCKDATA == 119
TC_ENDBLOCKDATA == 120
TC_RESET == 121
TC_BLOCKDATALONG == 122
TC_EXCEPTION == 123
TC_LONGSTRING == 124
TC_PROXYCLASSDESC == 125
TC_ENUM == 126
baseWireHandle == 8257536
SC_WRITE_METHOD == 1
SC_SERIALIZABLE == 2
SC_EXTERNALIZABLE == 4
SC_BLOCK_DATA == 8
SC_ENUM == 16
SC_Fail == 0
bufferSize == 1024

(***************************************************************************)
(* Bounds of the model.                                                    *)
(***************************************************************************)
\* the longest run of simple elements put together in an input
MaxFrags == 2
\* how many results the content loop of the method may collect
MaxContent == 6

(***************************************************************************)
(* Machine arithmetic.                                                     *)
(***************************************************************************)
RECURSIVE Pow2(_)
Pow2(n) == IF n = 0 THEN 1 ELSE 2 * Pow2(n - 1)

RECURSIVE BitAnd(_, _)
BitAnd(x, y) ==
    IF x = 0 \/ y = 0 THEN 0
    ELSE (IF x % 2 = 1 /\ y % 2 = 1 THEN 1 ELSE 0) + 2 * BitAnd(x \div 2, y \div 2)

\* b << k where b is a Go byte (uint8): the result is a uint8 again, and 0
\* once k reaches the width of the type.
ShlByte(b, k) == IF k >= 8 THEN 0 ELSE (b * Pow2(k)) % 256

\* uintN(b<<k) & (0xff<<k) with b a byte: the shift is done in the byte.
MaskedShl(b, k) ==
    LET v == ShlByte(b, k) IN IF v = 0 THEN 0 ELSE BitAnd(v, 255 * Pow2(k))

\* uint16(hi)<<8 | uint16(lo): binary.BigEndian decoding of two bytes.
BigEndian(bs) ==
    LET RECURSIVE Val(_)
        Val(n) == IF n = 0 THEN 0 ELSE 256 * Val(n - 1) + bs[n]
    IN  Val(Len(bs))

Last(q) == q[Len(q)]
Front(q) == SubSeq(q, 1, Len(q) - 1)

\* F applied to the value x, as in "x := ...; F(x)"
With(x, F(_)) == F(x)


(***************************************************************************)
(* Values of the walker.                                                   *)
(***************************************************************************)
\* ClassDetails (src/pkg/ClassDetailsImp.go): one class of a description.
NewClassDetails(className) ==
    [className |-> className, refHandle |-> -1, classDescFlags |-> 0,
     fieldDescriptions |-> <<>>]

\* ClassField (src/pkg/ClassFieldImp.go).
NewClassField(typeCode) == [typeCode |-> typeCode, name |-> <<>>, className1 |-> <<>>]

\* A *ClassDataDesc: the nil pointer, or the list of its ClassDetails.
NilClassDataDesc == [isNil |-> TRUE, classDetails |-> <<>>]
NewClassDataDesc == [isNil |-> FALSE, classDetails |-> <<>>]
NewClassDataDesc1(cd) == [isNil |-> FALSE, classDetails |-> cd]

isSC_SERIALIZABLE(cd) == BitAnd(cd.classDescFlags, 2) = 2
isSC_EXTERNALIZABLE(cd) == BitAnd(cd.classDescFlags, 4) = 4
isSC_WRITE_METHOD(cd) == BitAnd(cd.classDescFlags, 1) = 1
\* A isSC_BLOCK_DATA that tests the bit of SC_EXTERNALIZABLE.
isSC_BLOCK_DATA_WrongBit(cd) == BitAnd(cd.classDescFlags, 4) = 4
isSC_BLOCK_DATA(cd) == BitAnd(cd.classDescFlags, 8) = 8

getClassCount(cdd) == Len(cdd.classDetails)

\* The class list with its last class changed by f.
WithLastClass(cdd, f(_)) ==
    [cdd EXCEPT !.classDetails[Len(cdd.classDetails)] = f(@)]

addClass(cdd, className) ==
    [cdd EXCEPT !.classDetails = Append(@, NewClassDetails(className))]

setLastClassHandle(cdd, handle) ==
    LET f(cd) == [cd EXCEPT !.refHandle = handle] IN WithLastClass(cdd, f)

setLastClassDescFlags(cdd, flags) ==
    LET f(cd) == [cd EXCEPT !.classDescFlags = flags] IN WithLastClass(cdd, f)

addFieldToLastClass(cdd, typeCode) ==
    LET f(cd) == [cd EXCEPT !.fieldDescriptions = Append(@, NewClassField(typeCode))]
    IN  WithLastClass(cdd, f)

setLastFieldName(cdd, name) ==
    LET f(cd) == [cd EXCEPT !.fieldDescriptions[Len(cd.fieldDescriptions)].name = name]
    IN  WithLastClass(cdd, f)

setLastFieldClassName1(cdd, cn1) ==
    LET f(cd) ==
            [cd EXCEPT !.fieldDescriptions[Len(cd.fieldDescriptions)].className1 = cn1]
    IN  WithLastClass(cdd, f)

\* An addSuperClassDesc that puts the classes of scdd before those of cdd.
addSuperClassDesc_SuperFirst(cdd, scdd) ==
    IF scdd.isNil THEN cdd
    ELSE [cdd EXCEPT !.classDetails = scdd.classDetails \o @]

\* addSuperClassDesc copies the classes of scdd behind those of cdd.
addSuperClassDesc(cdd, scdd) ==
    IF scdd.isNil THEN cdd
    ELSE [cdd EXCEPT !.classDetails = @ \o scdd.classDetails]

\* buildClassDataDescFromIndex copies every class, whatever the index.
buildClassDataDescFromIndex(cdd, index) == NewClassDataDesc1(cdd.classDetails)

(***************************************************************************)
(* The parser state (SerializedObjectParser and its Smooth cursor), the    *)
(* call stack of the walker and what it has returned.                      *)
(***************************************************************************)
NoRet == [err |-> FALSE, cdd |-> NilClassDataDesc, handle |-> 0, str |-> <<>>]

Frame(fn) == [fn |-> fn, pc |-> 0, cdd |-> NilClassDataDesc, i |-> 0, n |-> 0]

\* NewSerializedObjectParser: the reader over buf, the handle counter at
\* 0x7e0000, an empty lookahead and no class descriptions.
NewSerializedObjectParser(buf, maxSize, entry) ==
    [buf |-> buf, rdPos |-> 0,
     data |-> <<>>, nPos |-> 0,
     maxDataBlockSize |-> maxSize,
     handleValue |-> baseWireHandle,
     indent |-> 0,
     classDataDescriptions |-> <<>>,
     entry |-> entry,
     stack |-> <<Frame(entry)>>,
     ret |-> NoRet,
     status |-> "running",
     content |-> <<>>,
     err |-> "nil",
     trace |-> <<>>]

Top(s) == Last(s.stack)
Running(s) == s.status = "running"

SetTop(s, f) == [s EXCEPT !.stack[Len(s.stack)] = f]
SetPc(s, pc) == [s EXCEPT !.stack[Len(s.stack)].pc = pc]
Push(s, fn) == [s EXCEPT !.stack = Append(@, Frame(fn))]
PushFrame(s, f) == [s EXCEPT !.stack = Append(@, f)]

\* return from the function on top of the stack with the value r
Return(s, r) == [s EXCEPT !.stack = Front(@), !.ret = r]
ReturnNothing(s) == Return(s, NoRet)

\* log.Panicln and the runtime panics: nothing recovers, the process aborts.
Panic(s, msg) == [s EXCEPT !.status = "panic", !.err = msg]

\* What the walker did, in order: tags begun, handles assigned, references read.
Log(s, ev, v) == [s EXCEPT !.trace = Append(@, <<ev, v>>)]

(***************************************************************************)
(* The byte cursor.                                                        *)
(***************************************************************************)
\* readUInt8: the next byte of the reader; at end of input the zero value
\* and an error.
readUInt8(s) ==
    IF s.rdPos < Len(s.buf)
    THEN [x |-> s.buf[s.rdPos + 1], err |-> FALSE, s |-> [s EXCEPT !.rdPos = @ + 1]]
    ELSE [x |-> 0, err |-> TRUE, s |-> s]

\* What the cursor hands on when readUInt8 has failed: the zero byte, the
\* error dropped.  The trace keeps that it happened.
DropError(r, ev) == IF r.err THEN Log(r.s, ev, r.x) ELSE r.s

\* Smooth.pop: the lookahead byte if there is one (counted in nPos), else a
\* byte of the reader, its error dropped.
pop(s) ==
    IF 0 < Len(s.data)
    THEN [b |-> s.data[1], s |-> [s EXCEPT !.data = Tail(@), !.nPos = @ + 1]]
    ELSE With(readUInt8(s), LAMBDA r : [b |-> r.x, s |-> DropError(r, "eofPop")])

\* A peek that hands the byte of the reader on without keeping it.
peek_NotKept(s) ==
    IF 0 < Len(s.data)
    THEN [b |-> s.data[1], s |-> s]
    ELSE With(readUInt8(s), LAMBDA r : [b |-> r.x, s |-> DropError(r, "eofPeek")])

\* Smooth.peek: the lookahead byte, read from the reader (error dropped) and
\* kept in data when there is none yet.
peek(s) ==
    IF 0 < Len(s.data)
    THEN [b |-> s.data[1], s |-> s]
    ELSE With(readUInt8(s), LAMBDA r :
            [b |-> r.x, s |-> [DropError(r, "eofPeek") EXCEPT !.data = <<r.x>> \o @]])

\* Smooth.size
size(s) == s.maxDataBlockSize - s.nPos

\* n successive pops: the bytes, in order, and the state after them.
RECURSIVE popN(_, _)
popN(s, n) ==
    IF n = 0 THEN [bs |-> <<>>, s |-> s]
    ELSE LET r == pop(s)
             q == popN(r.s, n - 1)
         IN  [bs |-> <<r.b>> \o q.bs, s |-> q.s]

increaseIndent(s) == [s EXCEPT !.indent = @ + 2]

decreaseIndent(s) ==
    IF s.indent < 2 THEN Panic(s, "Illegal indentation decrease")
    ELSE [s EXCEPT !.indent = @ - 2]

\* A newHandle1 that hands out the handle value and leaves it as it is.
newHandle1_NoIncrement(s) ==
    [h |-> s.handleValue, s |-> Log(s, "handle", s.handleValue)]

\* newHandle1: hand out the current handle value and move to the next one.
newHandle1(s) ==
    LET handleValue == s.handleValue
    IN  [h |-> handleValue,
         s |-> Log([s EXCEPT !.handleValue = @ + 1], "handle", handleValue)]

(***************************************************************************)
(* The readers that call no other element reader.  Each takes the parser   *)
(* state and gives the state after it, with the value it returns.          *)
(***************************************************************************)
\* pop the tag byte of an element and compare it with the expected tag
popTag(s, tag, msg) ==
    LET r == pop(s)
        s1 == Log(r.s, "begin", r.b)
    IN  IF r.b # tag THEN Panic(s1, msg) ELSE s1

\* readUtf: a 2-byte length, then that many bytes.  The length is computed as
\* (int(b1<<8) & 0xff00) + int(b2&0xff) with b1 a byte.
readUtf(s) ==
    With(popN(s, 2), LAMBDA r :
        With(popN(r.s, MaskedShl(r.bs[1], 8) + BitAnd(r.bs[2], 255)), LAMBDA c :
            [str |-> c.bs, s |-> c.s]))

\* readLongUtf: an 8-byte length, then that many bytes.
Count8(bs) ==
    MaskedShl(bs[1], 56) + MaskedShl(bs[2], 48) + MaskedShl(bs[3], 40)
    + MaskedShl(bs[4], 32) + MaskedShl(bs[5], 24) + MaskedShl(bs[6], 16)
    + MaskedShl(bs[7], 8) + BitAnd(bs[8], 255)

readLongUtf(s) ==
    With(popN(s, 8), LAMBDA r :
        With(popN(r.s, Count8(r.bs)), LAMBDA c : [str |-> c.bs, s |-> c.s]))

\* a 4-byte count computed as (int(b1<<24) & 0xff000000) + ... + (int(b4) & 0xff)
Count4(bs) ==
    MaskedShl(bs[1], 24) + MaskedShl(bs[2], 16) + MaskedShl(bs[3], 8)
    + BitAnd(bs[4], 255)

readTC_STRING(s) ==
    With(popTag(s, TC_STRING, "Illegal value for TC_STRING"), LAMBDA s1 :
        IF ~Running(s1) THEN [str |-> <<>>, s |-> s1]
        ELSE With(readUtf(newHandle1(increaseIndent(s1)).s), LAMBDA u :
                [str |-> u.str, s |-> decreaseIndent(u.s)]))

readTC_LONGSTRING(s) ==
    With(popTag(s, TC_LONGSTRING, "Illegal value for TC_LONGSTRING"), LAMBDA s1 :
        IF ~Running(s1) THEN [str |-> <<>>, s |-> s1]
        ELSE With(readLongUtf(newHandle1(increaseIndent(s1)).s), LAMBDA u :
                [str |-> u.str, s |-> decreaseIndent(u.s)]))

\* readPrevObject: the tag and the 4-byte handle, decoded big-endian.  The
\* handle is returned as read; nothing is looked up here.
readPrevObject(s) ==
    With(popTag(s, TC_REFERENCE, "Illegal value for TC_REFERENCE"), LAMBDA s1 :
        IF ~Running(s1) THEN [handle |-> 0, s |-> s1]
        ELSE With(popN(increaseIndent(s1), 4), LAMBDA r :
                [handle |-> BigEndian(r.bs),
                 s |-> decreaseIndent(Log(r.s, "ref", BigEndian(r.bs)))]))

readNullReference(s) == popTag(s, TC_NULL, "Illegal value for TC_NULL")

\* readException and handleReset have empty bodies.
readException(s) == s

handleReset(s) == s

\* A readBlockData that assigns a handle to the block.
readBlockData_WithHandle(s) ==
    With(popTag(s, TC_BLOCKDATA, "Illegal value for TC_BLOCKDATA"), LAMBDA s1 :
        IF ~Running(s1) THEN s1
        ELSE With(pop(increaseIndent(s1)), LAMBDA l :
                newHandle1(decreaseIndent(popN(l.s, BitAnd(l.b, 255)).s)).s))

readBlockData(s) ==
    With(popTag(s, TC_BLOCKDATA, "Illegal value for TC_BLOCKDATA"), LAMBDA s1 :
        IF ~Running(s1) THEN s1
        ELSE With(pop(increaseIndent(s1)), LAMBDA l :
                decreaseIndent(popN(l.s, BitAnd(l.b, 255)).s)))

readLongBlockData(s) ==
    With(popTag(s, TC_BLOCKDATALONG, "Illegal value for TC_BLOCKDATA"), LAMBDA s1 :
        IF ~Running(s1) THEN s1
        ELSE With(popN(increaseIndent(s1), 4), LAMBDA l :
                decreaseIndent(popN(l.s, Count4(l.bs)).s)))

\* "[TC_REF]", what readNewString returns for a reference
TC_REF_String == <<91, 84, 67, 95, 82, 69, 70, 93>>

\* readNewString: a TC_STRING, a TC_LONGSTRING or a TC_REFERENCE.
readNewString(s) ==
    With(peek(s), LAMBDA p :
        CASE p.b = TC_STRING -> readTC_STRING(p.s)
          [] p.b = TC_LONGSTRING -> readTC_LONGSTRING(p.s)
          [] p.b = TC_REFERENCE ->
                [str |-> TC_REF_String, s |-> readPrevObject(p.s).s]
          [] OTHER -> [str |-> <<>>, s |-> Panic(p.s, "illegal newString type")])

(***************************************************************************)
(* The functions that call other element readers.  Top(s) is the frame of  *)
(* the function being run, Top(s).pc the place it has reached; a call      *)
(* pushes the frame of the callee, whose return value is left in s.ret.    *)
(***************************************************************************)
Call(s, pc, fn) == Push(SetPc(s, pc), fn)
CallFrame(s, pc, f) == PushFrame(SetPc(s, pc), f)
Finish(s, r) == IF Running(s) THEN Return(s, r) ELSE s
RetCdd(cdd) == [NoRet EXCEPT !.cdd = cdd]
RetErr == [NoRet EXCEPT !.err = TRUE]

\* readContentElement: dispatch on the lookahead byte.  The cases TC_STRING
\* and TC_CLASSDESC have empty bodies (a Go case does not fall through).
readContentElement(s) ==
    LET p == peek(s)
        b == p.b
    IN  IF Top(s).pc = 1 THEN Return(s, NoRet)
        ELSE CASE b = TC_OBJECT -> Call(p.s, 1, "readNewObject")
               [] b = TC_CLASS -> Call(p.s, 1, "readNewClass")
               [] b = TC_ARRAY -> Call(p.s, 1, "readNewArray")
               [] b = TC_STRING -> Return(p.s, NoRet)
               [] b = TC_LONGSTRING -> Call(p.s, 1, "readNewString")
               [] b = TC_ENUM -> Call(p.s, 1, "readNewEnum")
               [] b = TC_CLASSDESC -> Return(p.s, NoRet)
               [] b = TC_PROXYCLASSDESC -> Call(p.s, 1, "readNewClassDesc")
               [] b = TC_REFERENCE -> Call(p.s, 1, "readPrevObject")
               [] b = TC_NULL -> Call(p.s, 1, "readNullReference")
               [] b = TC_EXCEPTION -> Call(p.s, 1, "readException")
               [] b = TC_RESET -> Call(p.s, 1, "handleReset")
               [] b = TC_BLOCKDATA -> Call(p.s, 1, "readBlockData")
               [] b = TC_BLOCKDATALONG -> Call(p.s, 1, "readLongBlockData")
               [] OTHER -> Return(p.s, RetErr)

\* A content that returns an error for a tag it does not know.
content_ErrOnUnknownTag(s) ==
    LET p == peek(s)
        b == p.b
    IN  IF Top(s).pc = 1 THEN Return(s, NoRet)
        ELSE CASE b = TC_NULL -> Call(p.s, 1, "readNullReference")
               [] b = TC_REFERENCE -> Call(p.s, 1, "readPrevObject")
               [] b \in {TC_CLASSDESC, TC_PROXYCLASSDESC} ->
                     Call(p.s, 1, "readNewClassDesc")
               [] b = TC_OBJECT -> Call(p.s, 1, "readNewObject")
               [] b \in {TC_STRING, TC_LONGSTRING} -> Call(p.s, 1, "readNewString")
               [] b = TC_ARRAY -> Call(p.s, 1, "readNewArray")
               [] b = TC_CLASS -> Call(p.s, 1, "readNewClass")
               [] b = TC_BLOCKDATA -> Call(p.s, 1, "readBlockData")
               [] b = TC_ENDBLOCKDATA -> Return(p.s, NoRet)
               [] b = TC_RESET -> Call(p.s, 1, "handleReset")
               [] b = TC_BLOCKDATALONG -> Call(p.s, 1, "readLongBlockData")
               [] b = TC_EXCEPTION -> Call(p.s, 1, "readException")
               [] b = TC_ENUM -> Call(p.s, 1, "readNewEnum")
               [] OTHER -> Return(p.s, RetErr)

\* content: the dispatch of the value parser; it calls the walker's readers
\* and returns nil, nil whatever the tag.
content(s) ==
    LET p == peek(s)
        b == p.b
    IN  IF Top(s).pc = 1 THEN Return(s, NoRet)
        ELSE CASE b = TC_NULL -> Call(p.s, 1, "readNullReference")
               [] b = TC_REFERENCE -> Call(p.s, 1, "readPrevObject")
               [] b \in {TC_CLASSDESC, TC_PROXYCLASSDESC} ->
                     Call(p.s, 1, "readNewClassDesc")
               [] b = TC_OBJECT -> Call(p.s, 1, "readNewObject")
               [] b \in {TC_STRING, TC_LONGSTRING} -> Call(p.s, 1, "readNewString")
               [] b = TC_ARRAY -> Call(p.s, 1, "readNewArray")
               [] b = TC_CLASS -> Call(p.s, 1, "readNewClass")
               [] b = TC_BLOCKDATA -> Call(p.s, 1, "readBlockData")
               [] b = TC_ENDBLOCKDATA -> Return(p.s, NoRet)
               [] b = TC_RESET -> Call(p.s, 1, "handleReset")
               [] b = TC_BLOCKDATALONG -> Call(p.s, 1, "readLongBlockData")
               [] b = TC_EXCEPTION -> Call(p.s, 1, "readException")
               [] b = TC_ENUM -> Call(p.s, 1, "readNewEnum")
               [] OTHER -> Return(p.s, NoRet)

\* The loop of readClassDesc over one class data description: classIndex is
\* incremented before it is used, and getClassDetails gives nil at the count.
RECURSIVE ScanClasses(_, _, _)
ScanClasses(cdd, classIndex, refHandle) ==
    IF ~(classIndex < getClassCount(cdd)) THEN [kind |-> "none", index |-> 0]
    ELSE LET next == classIndex + 1
         IN  IF next >= getClassCount(cdd) THEN [kind |-> "nilDeref", index |-> next]
             ELSE IF cdd.classDetails[next + 1].refHandle = refHandle
                  THEN [kind |-> "found", index |-> next]
                  ELSE ScanClasses(cdd, next, refHandle)

RECURSIVE ScanDescriptions(_, _, _)
ScanDescriptions(cdds, k, refHandle) ==
    IF k > Len(cdds) THEN [kind |-> "none", index |-> 0, cdd |-> NilClassDataDesc]
    ELSE LET r == ScanClasses(cdds[k], 0, refHandle)
         IN  IF r.kind = "none" THEN ScanDescriptions(cdds, k + 1, refHandle)
             ELSE [kind |-> r.kind, index |-> r.index, cdd |-> cdds[k]]

\* readClassDesc: a new class description, a null or a reference to one.
readClassDescReference(r, found) ==
    IF ~Running(r.s) THEN r.s
    ELSE CASE found.kind = "found" ->
                Return(r.s, RetCdd(buildClassDataDescFromIndex(found.cdd, found.index)))
           [] found.kind = "nilDeref" -> Panic(r.s, "nil pointer dereference")
           [] OTHER -> Panic(r.s, "Invalid classDesc reference")

readClassDesc(s) ==
    With(peek(s), LAMBDA p :
        CASE p.b \in {TC_CLASSDESC, TC_PROXYCLASSDESC} ->
                SetTop(p.s, Frame("readNewClassDesc"))
          [] p.b = TC_NULL -> Finish(readNullReference(p.s), RetCdd(NilClassDataDesc))
          [] p.b = TC_REFERENCE ->
                With(readPrevObject(p.s), LAMBDA r :
                    readClassDescReference(
                        r, ScanDescriptions(r.s.classDataDescriptions, 1, r.handle)))
          [] OTHER -> Panic(p.s, "illegal classDesc type"))

\* readNewClassDesc: read the description, then append it to the list.
readNewClassDesc(s) ==
    LET p == peek(s)
        cdd == s.ret.cdd
    IN  IF Top(s).pc = 1
        THEN Return([s EXCEPT !.classDataDescriptions = Append(@, cdd)], RetCdd(cdd))
        ELSE CASE p.b = TC_CLASSDESC -> Call(p.s, 1, "readTC_CLASSDESC")
               [] p.b = TC_PROXYCLASSDESC -> Call(p.s, 1, "readTC_PROXYCLASSDESC")
               [] OTHER -> Panic(p.s, "illegal newClassDesc type")

\* readFieldDesc: the type code, the field name and, for '[' and 'L', the
\* className1.
\* Type codes that take 'X' for a type code.
TypeCodes_WithX == {66, 67, 68, 70, 73, 74, 83, 88, 90, 91, 76}

TypeCodes == {66, 67, 68, 70, 73, 74, 83, 90, 91, 76}

readFieldDesc(s, cdd) ==
    With(pop(s), LAMBDA r :
        IF r.b \notin TypeCodes
        THEN [cdd |-> addFieldToLastClass(cdd, r.b),
              s |-> Panic(r.s, "Illegal field type code")]
        ELSE With(readUtf(increaseIndent(r.s)), LAMBDA u :
                IF r.b \in {91, 76}
                THEN With(readNewString(increaseIndent(decreaseIndent(u.s))), LAMBDA n :
                        [cdd |-> setLastFieldClassName1(
                                     setLastFieldName(addFieldToLastClass(cdd, r.b),
                                                      u.str),
                                     n.str),
                         s |-> IF Running(n.s) THEN decreaseIndent(n.s) ELSE n.s])
                ELSE [cdd |-> setLastFieldName(addFieldToLastClass(cdd, r.b), u.str),
                      s |-> decreaseIndent(u.s)]))

RECURSIVE readFieldsLoop(_, _, _, _)
readFieldsLoop(s, cdd, i, count) ==
    IF ~(i < count) \/ ~Running(s) THEN [cdd |-> cdd, s |-> s]
    ELSE With(readFieldDesc(increaseIndent(s), cdd), LAMBDA r :
            IF ~Running(r.s) THEN r
            ELSE readFieldsLoop(decreaseIndent(r.s), r.cdd, i + 1, count))

\* readFields: a 2-byte count, then that many field descriptions.
readFields(s, cdd) ==
    With(popN(s, 2), LAMBDA r :
        IF MaskedShl(r.bs[1], 8) + BitAnd(r.bs[2], 255) > 0
        THEN With(readFieldsLoop(increaseIndent(r.s), cdd, 0,
                                 MaskedShl(r.bs[1], 8) + BitAnd(r.bs[2], 255)),
                  LAMBDA l :
                      [cdd |-> l.cdd,
                       s |-> IF Running(l.s) THEN decreaseIndent(l.s) ELSE l.s])
        ELSE [cdd |-> cdd, s |-> r.s])

\* A validation of the classDescFlags that lets SC_EXTERNALIZABLE stand with
\* SC_WRITE_METHOD.
IllegalClassDescFlags_NoWriteMethodRule(b1) ==
    IF BitAnd(b1, SC_SERIALIZABLE) = SC_SERIALIZABLE
    THEN \/ BitAnd(b1, SC_EXTERNALIZABLE) = SC_EXTERNALIZABLE
         \/ BitAnd(b1, SC_BLOCK_DATA) = SC_BLOCK_DATA
    ELSE IF BitAnd(b1, SC_EXTERNALIZABLE) = SC_EXTERNALIZABLE
         THEN FALSE
         ELSE b1 # SC_Fail

\* The validation of the classDescFlags in readClassDescInfo.
IllegalClassDescFlags(b1) ==
    IF BitAnd(b1, SC_SERIALIZABLE) = SC_SERIALIZABLE
    THEN \/ BitAnd(b1, SC_EXTERNALIZABLE) = SC_EXTERNALIZABLE
         \/ BitAnd(b1, SC_BLOCK_DATA) = SC_BLOCK_DATA
    ELSE IF BitAnd(b1, SC_EXTERNALIZABLE) = SC_EXTERNALIZABLE
         THEN BitAnd(b1, SC_WRITE_METHOD) = SC_WRITE_METHOD
         ELSE b1 # SC_Fail

\* readClassDescInfo: flags, fields, class annotations, super class.
readClassDescInfo(s) ==
    LET f == Top(s)
    IN  CASE f.pc = 0 ->
                With(pop(s), LAMBDA r :
                    IF IllegalClassDescFlags(r.b)
                    THEN Panic(SetTop(r.s, [f EXCEPT !.cdd =
                                                setLastClassDescFlags(f.cdd, r.b)]),
                               "Illegal classDescFlags")
                    ELSE With(readFields(r.s, setLastClassDescFlags(f.cdd, r.b)),
                              LAMBDA fl :
                                  IF ~Running(fl.s)
                                  THEN SetTop(fl.s, [f EXCEPT !.cdd = fl.cdd])
                                  ELSE Call(SetTop(fl.s, [f EXCEPT !.cdd = fl.cdd]), 1,
                                            "readClassAnnotation")))
          [] f.pc = 1 -> Call(s, 2, "readSuperClassDesc")
          [] OTHER -> Return(s, RetCdd(addSuperClassDesc(f.cdd, s.ret.cdd)))

\* readSuperClassDesc: a classDesc, indented.
readSuperClassDesc(s) ==
    IF Top(s).pc = 0 THEN Call(increaseIndent(s), 1, "readClassDesc")
    ELSE Finish(decreaseIndent(s), RetCdd(s.ret.cdd))

\* The loop of readClassAnnotation and of the objectAnnotation of
\* readClassData: content elements until the lookahead is TC_ENDBLOCKDATA.
\* What readContentElement returns is not looked at.
AnnotationLoop(s, pc, after) ==
    LET p == peek(s)
        e == pop(p.s)
    IN  IF p.b # TC_ENDBLOCKDATA THEN Call(p.s, pc, "readContentElement")
        ELSE SetPc(decreaseIndent(e.s), after)

readClassAnnotation(s) ==
    CASE Top(s).pc = 0 -> AnnotationLoop(increaseIndent(s), 1, 2)
      [] Top(s).pc = 1 -> AnnotationLoop(s, 1, 2)
      [] OTHER -> Return(s, NoRet)

\* "<Dynamic Proxy Class>"
ProxyClassName ==
    <<60, 68, 121, 110, 97, 109, 105, 99, 32, 80, 114, 111, 120, 121, 32,
      67, 108, 97, 115, 115, 62>>

\* A readTC_CLASSDESC that assigns the handle when the classDescInfo has
\* been read.
readTC_CLASSDESC_HandleLast(s) ==
    IF Top(s).pc = 1
    THEN With(newHandle1(s), LAMBDA h :
            Finish(decreaseIndent(h.s), RetCdd(setLastClassHandle(s.ret.cdd, h.h))))
    ELSE With(popTag(s, TC_CLASSDESC, "Illegal value for TC_CLASSDESC"), LAMBDA s1 :
            IF ~Running(s1) THEN s1
            ELSE With(readUtf(increaseIndent(increaseIndent(s1))), LAMBDA u :
                    CallFrame(popN(decreaseIndent(u.s), 8).s, 1,
                              [Frame("readClassDescInfo") EXCEPT !.cdd =
                                  addClass(NewClassDataDesc, u.str)])))

\* readTC_CLASSDESC: tag, class name, serialVersionUID, handle, then the
\* classDescInfo.
readTC_CLASSDESC(s) ==
    IF Top(s).pc = 1 THEN Finish(decreaseIndent(s), RetCdd(s.ret.cdd))
    ELSE With(popTag(s, TC_CLASSDESC, "Illegal value for TC_CLASSDESC"), LAMBDA s1 :
            IF ~Running(s1) THEN s1
            ELSE With(readUtf(increaseIndent(increaseIndent(s1))), LAMBDA u :
                    With(newHandle1(popN(decreaseIndent(u.s), 8).s), LAMBDA h :
                        CallFrame(h.s, 1,
                                  [Frame("readClassDescInfo") EXCEPT !.cdd =
                                      setLastClassHandle(
                                          addClass(NewClassDataDesc, u.str), h.h)]))))

RECURSIVE readUtfTimes(_, _, _)
readUtfTimes(s, i, count) ==
    IF ~(i < count) THEN s
    ELSE readUtfTimes(decreaseIndent(readUtf(increaseIndent(s)).s), i + 1, count)

\* readProxyClassDescInfo: interface count and names, annotations, super.
readProxyClassDescInfo(s) ==
    LET f == Top(s)
    IN  CASE f.pc = 0 ->
                With(popN(s, 4), LAMBDA r :
                    Call(decreaseIndent(readUtfTimes(increaseIndent(r.s), 0,
                                                     Count4(r.bs))),
                         1, "readClassAnnotation"))
          [] f.pc = 1 -> Call(s, 2, "readSuperClassDesc")
          [] OTHER -> Return(s, RetCdd(addSuperClassDesc(f.cdd, s.ret.cdd)))

readTC_PROXYCLASSDESC(s) ==
    IF Top(s).pc = 1 THEN Finish(decreaseIndent(s), RetCdd(s.ret.cdd))
    ELSE With(popTag(s, TC_PROXYCLASSDESC, "Illegal value for TC_PROXYCLASSDESC"),
              LAMBDA s1 :
                  IF ~Running(s1) THEN s1
                  ELSE With(newHandle1(increaseIndent(s1)), LAMBDA h :
                          CallFrame(h.s, 1,
                                    [Frame("readProxyClassDescInfo") EXCEPT !.cdd =
                                        setLastClassHandle(
                                            addClass(NewClassDataDesc, ProxyClassName),
                                            h.h)])))

(***************************************************************************)
(* Objects, class data, arrays, enums and classes.                         *)
(***************************************************************************)
\* A readNewObject that assigns the object's handle before it reads the
\* class description.
readNewObject_HandleFirst(s) ==
    LET f == Top(s)
    IN  CASE f.pc = 0 ->
                With(popTag(s, TC_OBJECT, "Illegal value for TC_OBJECT"), LAMBDA s1 :
                    IF ~Running(s1) THEN s1
                    ELSE Call(newHandle1(increaseIndent(s1)).s, 1, "readClassDesc"))
          [] f.pc = 1 ->
                CallFrame(s, 2, [Frame("readClassData") EXCEPT !.cdd = s.ret.cdd])
          [] OTHER -> Finish(decreaseIndent(s), NoRet)

\* readNewObject: tag, classDesc, handle, classdata.
readNewObject(s) ==
    LET f == Top(s)
    IN  CASE f.pc = 0 ->
                With(popTag(s, TC_OBJECT, "Illegal value for TC_OBJECT"), LAMBDA s1 :
                    IF ~Running(s1) THEN s1
                    ELSE Call(increaseIndent(s1), 1, "readClassDesc"))
          [] f.pc = 1 ->
                CallFrame(newHandle1(s).s, 2,
                          [Frame("readClassData") EXCEPT !.cdd = s.ret.cdd])
          [] OTHER -> Finish(decreaseIndent(s), NoRet)

\* number of bytes of a primitive field value
PrimitiveSize(typeCode) ==
    CASE typeCode \in {66, 90} -> 1
      [] typeCode \in {67, 83} -> 2
      [] typeCode \in {70, 73} -> 4
      [] typeCode \in {68, 74} -> 8

\* readFieldValue: read one value of the given type code.
readFieldValue(s) ==
    LET typeCode == Top(s).n
    IN  CASE typeCode \in {66, 67, 68, 70, 73, 74, 83, 90} ->
                Return(popN(s, PrimitiveSize(typeCode)).s, NoRet)
          [] typeCode = 91 -> SetTop(s, Frame("readArrayField"))
          [] typeCode = 76 -> SetTop(s, Frame("readObjectField"))
          [] OTHER -> Panic(s, "Illegal field type code")

\* readClassDataField: a field value, indented.
readClassDataField(s) ==
    IF Top(s).pc = 0
    THEN CallFrame(increaseIndent(s), 1,
                   [Frame("readFieldValue") EXCEPT !.n = Top(s).n])
    ELSE Finish(decreaseIndent(s), NoRet)

\* readArrayField: null, a new array or a reference.
readArrayField(s) ==
    LET p == peek(increaseIndent(s))
    IN  IF Top(s).pc = 1 THEN Finish(decreaseIndent(s), NoRet)
        ELSE CASE p.b = TC_NULL ->
                     Finish(decreaseIndent(readNullReference(p.s)), NoRet)
               [] p.b = TC_ARRAY -> Call(p.s, 1, "readNewArray")
               [] p.b = TC_REFERENCE ->
                     Finish(decreaseIndent(readPrevObject(p.s).s), NoRet)
               [] OTHER -> Panic(p.s, "Unexpected array field value type")

\* readObjectField: the values an object field can hold.
readObjectField(s) ==
    LET p == peek(increaseIndent(s))
    IN  IF Top(s).pc = 1 THEN Finish(decreaseIndent(s), NoRet)
        ELSE CASE p.b = TC_OBJECT -> Call(p.s, 1, "readNewObject")
               [] p.b = TC_REFERENCE ->
                     Finish(decreaseIndent(readPrevObject(p.s).s), NoRet)
               [] p.b = TC_NULL ->
                     Finish(decreaseIndent(readNullReference(p.s)), NoRet)
               [] p.b = TC_STRING ->
                     Finish(decreaseIndent(readTC_STRING(p.s).s), NoRet)
               [] p.b = TC_CLASS -> Call(p.s, 1, "readNewClass")
               [] p.b = TC_ARRAY -> Call(p.s, 1, "readNewArray")
               [] p.b = TC_ENUM -> Call(p.s, 1, "readNewEnum")
               [] OTHER -> Panic(p.s, "Unexpected identifier for object field value")

\* A readClassData that reads an annotation for every SC_SERIALIZABLE class.
readClassData_AnnotationAlways(s) ==
    LET f == Top(s)
        cd == f.cdd.classDetails[f.i + 1]
        s1 == increaseIndent(s)
        hasBlockData == isSC_SERIALIZABLE(cd)
                        \/ (isSC_EXTERNALIZABLE(cd) /\ isSC_BLOCK_DATA(cd))
    IN  CASE f.pc = 0 ->
                IF f.cdd.isNil THEN Finish(decreaseIndent(s1), NoRet)
                ELSE SetTop(s1, [f EXCEPT !.pc = 1, !.i = getClassCount(f.cdd) - 1])
          [] f.pc = 1 ->
                IF ~(f.i >= 0) THEN Finish(decreaseIndent(s), NoRet)
                ELSE IF isSC_SERIALIZABLE(cd)
                     THEN SetTop(increaseIndent(s1), [f EXCEPT !.pc = 2, !.n = 0])
                     ELSE SetPc(s1, 3)
          [] f.pc = 2 ->
                IF f.n < Len(cd.fieldDescriptions)
                THEN PushFrame(SetTop(s, [f EXCEPT !.n = @ + 1]),
                               [Frame("readClassDataField") EXCEPT
                                   !.n = cd.fieldDescriptions[f.n + 1].typeCode])
                ELSE SetPc(decreaseIndent(s), 3)
          [] f.pc = 3 ->
                IF isSC_EXTERNALIZABLE(cd) /\ ~isSC_BLOCK_DATA(cd)
                THEN Panic(s1, "Unable to parse externalContents element")
                ELSE IF hasBlockData THEN SetPc(s1, 4) ELSE SetPc(s, 5)
          [] f.pc = 4 -> AnnotationLoop(s, 4, 5)
          [] OTHER -> SetTop(decreaseIndent(s), [f EXCEPT !.pc = 1, !.i = @ - 1])

\* readClassData: for every class of the description, last class first, its
\* field values (SC_SERIALIZABLE) and its object annotation.  f.i is the
\* classIndex, f.n the number of fields of the class already read.
readClassData(s) ==
    LET f == Top(s)
        cd == f.cdd.classDetails[f.i + 1]
        s1 == increaseIndent(s)
        hasBlockData == (isSC_SERIALIZABLE(cd) /\ isSC_WRITE_METHOD(cd))
                        \/ (isSC_EXTERNALIZABLE(cd) /\ isSC_BLOCK_DATA(cd))
    IN  CASE f.pc = 0 ->
                IF f.cdd.isNil THEN Finish(decreaseIndent(s1), NoRet)
                ELSE SetTop(s1, [f EXCEPT !.pc = 1, !.i = getClassCount(f.cdd) - 1])
          [] f.pc = 1 ->
                IF ~(f.i >= 0) THEN Finish(decreaseIndent(s), NoRet)
                ELSE IF isSC_SERIALIZABLE(cd)
                     THEN SetTop(increaseIndent(s1), [f EXCEPT !.pc = 2, !.n = 0])
                     ELSE SetPc(s1, 3)
          [] f.pc = 2 ->
                IF f.n < Len(cd.fieldDescriptions)
                THEN PushFrame(SetTop(s, [f EXCEPT !.n = @ + 1]),
                               [Frame("readClassDataField") EXCEPT
                                   !.n = cd.fieldDescriptions[f.n + 1].typeCode])
                ELSE SetPc(decreaseIndent(s), 3)
          [] f.pc = 3 ->
                IF isSC_EXTERNALIZABLE(cd) /\ ~isSC_BLOCK_DATA(cd)
                THEN Panic(s1, "Unable to parse externalContents element")
                ELSE IF hasBlockData THEN SetPc(s1, 4) ELSE SetPc(s, 5)
          [] f.pc = 4 -> AnnotationLoop(s, 4, 5)
          [] OTHER -> SetTop(decreaseIndent(s), [f EXCEPT !.pc = 1, !.i = @ - 1])

\* A readNewClass that assigns no handle to the class.
readNewClass_NoHandle(s) ==
    IF Top(s).pc = 0
    THEN With(popTag(s, TC_CLASS, "Illegal value for TC_CLASS"), LAMBDA s1 :
            IF ~Running(s1) THEN s1 ELSE Call(increaseIndent(s1), 1, "readClassDesc"))
    ELSE Finish(decreaseIndent(s), NoRet)

\* readNewClass: tag, classDesc, handle.
readNewClass(s) ==
    IF Top(s).pc = 0
    THEN With(popTag(s, TC_CLASS, "Illegal value for TC_CLASS"), LAMBDA s1 :
            IF ~Running(s1) THEN s1 ELSE Call(increaseIndent(s1), 1, "readClassDesc"))
    ELSE Finish(newHandle1(decreaseIndent(s)).s, NoRet)

\* readNewEnum: tag, classDesc, handle, the constant name.
readNewEnum(s) ==
    IF Top(s).pc = 0
    THEN With(popTag(s, TC_ENUM, "Illegal value for TC_ENUM"), LAMBDA s1 :
            IF ~Running(s1) THEN s1 ELSE Call(increaseIndent(s1), 1, "readClassDesc"))
    ELSE With(readNewString(newHandle1(SetPc(s, 2)).s), LAMBDA n :
            IF ~Running(n.s) THEN n.s ELSE Finish(decreaseIndent(n.s), NoRet))

\* readNewArray: tag, classDesc (one class, its name starting with '['),
\* handle, size, then size values read with the first byte of the class name
\* as type code.  f.n is the size, f.i the number of values begun.
readNewArray(s) ==
    LET f == Top(s)
        cdd == s.ret.cdd
        cd == cdd.classDetails[1]
    IN  CASE f.pc = 0 ->
                With(popTag(s, TC_ARRAY, "Illegal value for TC_ARRAY"), LAMBDA s1 :
                    IF ~Running(s1) THEN s1
                    ELSE Call(increaseIndent(s1), 1, "readClassDesc"))
          [] f.pc = 1 ->
                CASE cdd.isNil -> Panic(s, "nil pointer dereference")
                  [] getClassCount(cdd) # 1 ->
                        Panic(s, "Array class description made up of more than one class")
                  [] Len(cd.className) < 1 -> Panic(s, "slice bounds out of range")
                  [] SubSeq(cd.className, 1, 1) # <<91>> ->
                        Panic(s, "Array class name does not begin with '['")
                  [] OTHER ->
                        With(popN(newHandle1(s).s, 4), LAMBDA r :
                            SetTop(increaseIndent(r.s),
                                   [f EXCEPT !.pc = 2, !.cdd = cdd,
                                             !.n = Count4(r.bs), !.i = 0]))
          [] f.pc = 2 ->
                IF f.i < f.n
                THEN PushFrame(increaseIndent(SetTop(s, [f EXCEPT !.pc = 3, !.i = @ + 1])),
                               [Frame("readFieldValue") EXCEPT
                                   !.n = SubSeq(f.cdd.classDetails[1].className, 1, 1)[1]])
                ELSE Finish(decreaseIndent(decreaseIndent(s)), NoRet)
          [] OTHER -> SetPc(decreaseIndent(s), 2)

(***************************************************************************)
(* The two entry points: ParseSerializedObject(buf), which runs the        *)
(* walker parseStream, and the method ParseSerializedObject of             *)
(* SerializedObjectParser, which checks magic and version on the reader    *)
(* and then calls content until the reader is at its end.                  *)
(***************************************************************************)
ReturnFromEntry(s, contents, err) ==
    [s EXCEPT !.stack = <<>>, !.status = "done", !.content = contents, !.err = err]

\* A parseStream that looks at the RMI packet type byte and leaves it in the
\* lookahead.
parseStreamRMI_KeepByte(s) == SetPc(peek(s).s, 1)

\* parseStream, the RMI packet type byte: when the lookahead is not the first
\* magic byte, one byte is popped, whatever it is.
parseStreamRMI(s) ==
    LET p == peek(s)
        r == pop(p.s)
    IN  IF p.b # STREAM_MAGIC1
        THEN SetPc(Log(r.s, IF r.b \in {RMI_Call, RMI_ReturnData, RMI_Ping,
                                        RMI_PingAck, RMI_DgcAck}
                            THEN "rmi" ELSE "unknownRmi", r.b), 1)
        ELSE SetPc(p.s, 1)

\* A parseStream that goes on to the version after a magic number that is
\* not 0xac 0xed.
parseStreamMagic_GoesOn(s) ==
    LET r == popN(s, 2)
    IN  IF r.bs[1] # STREAM_MAGIC1 \/ r.bs[2] # STREAM_MAGIC2
        THEN SetPc(Log(r.s, "invalidMagic", BigEndian(r.bs)), 2)
        ELSE SetPc(r.s, 2)

\* parseStream, the magic number: two bytes; parseStream returns when they
\* are not 0xac 0xed.
parseStreamMagic(s) ==
    LET r == popN(s, 2)
    IN  IF r.bs[1] # STREAM_MAGIC1 \/ r.bs[2] # STREAM_MAGIC2
        THEN Return(Log(r.s, "invalidMagic", BigEndian(r.bs)), NoRet)
        ELSE SetPc(r.s, 2)

\* parseStream, the version: two bytes; a version other than 0x00 0x05 is
\* printed as invalid and the walk goes on.
parseStreamVersion(s) ==
    LET r == popN(s, 2)
        s1 == IF r.bs[1] # SC_Fail \/ r.bs[2] # STREAM_VERSION
              THEN Log(r.s, "invalidVersion", BigEndian(r.bs))
              ELSE r.s
    IN  SetPc(increaseIndent(s1), 3)

\* parseStream, the contents: content elements while size() > 0, until one
\* returns an error.
parseStreamContents(s) ==
    IF Top(s).pc = 4 /\ s.ret.err THEN Finish(decreaseIndent(s), NoRet)
    ELSE IF size(s) > 0 THEN Call(s, 4, "readContentElement")
    ELSE Finish(decreaseIndent(s), NoRet)

parseStream(s) ==
    CASE Top(s).pc = 0 -> parseStreamRMI(s)
      [] Top(s).pc = 1 -> parseStreamMagic(s)
      [] Top(s).pc = 2 -> parseStreamVersion(s)
      [] OTHER -> parseStreamContents(s)

\* ParseSerializedObject(buf): run parseStream, return nil, nil.
ParseSerializedObject(s) ==
    IF Top(s).pc = 0 THEN Call(s, 1, "parseStream")
    ELSE ReturnFromEntry(s, <<>>, "nil")

\* readUInt16: two bytes of the reader, big-endian; an error (and the zero
\* value) when fewer than two are left.
readUInt16(s) ==
    IF s.rdPos + 2 <= Len(s.buf)
    THEN [x |-> 256 * s.buf[s.rdPos + 1] + s.buf[s.rdPos + 2], err |-> FALSE,
          s |-> [s EXCEPT !.rdPos = @ + 2]]
    ELSE [x |-> 0, err |-> TRUE, s |-> [s EXCEPT !.rdPos = Len(s.buf)]]

\* magic: the first two bytes must be STREAM_MAGIC.
magic(s) ==
    LET r == readUInt16(s)
    IN  IF ~r.err /\ r.x # 256 * STREAM_MAGIC1 + STREAM_MAGIC2
        THEN [err |-> "magic value STREAM_MAGIC not found", s |-> r.s]
        ELSE [err |-> IF r.err THEN "error reading uint16" ELSE "nil", s |-> r.s]

\* version: the low byte of the version word must be STREAM_VERSION.
version(s) ==
    LET r == readUInt16(s)
    IN  IF r.err THEN [err |-> "error reading uint16", s |-> r.s]
        ELSE IF r.x % 256 # STREAM_VERSION
             THEN [err |-> "protocol version not recognized", s |-> r.s]
             ELSE [err |-> "nil", s |-> r.s]

\* end: no byte is left in the reader.
end(s) == s.rdPos = Len(s.buf)

\* The method ParseSerializedObject: magic, version, then content until end.
SerializedObjectParser_ParseSerializedObject(s) ==
    LET f == Top(s)
        m == magic(s)
        v == version(s)
    IN  CASE f.pc = 0 ->
                IF m.err # "nil" THEN ReturnFromEntry(m.s, <<>>, m.err)
                ELSE SetPc(m.s, 1)
          [] f.pc = 1 ->
                IF v.err # "nil" THEN ReturnFromEntry(v.s, <<>>, v.err)
                ELSE SetPc(v.s, 2)
          [] f.pc = 2 ->
                IF end(s) THEN ReturnFromEntry(s, s.content, "nil")
                ELSE Call(s, 3, "content")
          [] OTHER ->
                IF s.ret.err THEN ReturnFromEntry(s, s.content, "premature end of input")
                ELSE SetPc([s EXCEPT !.content = Append(@, "nil")], 2)

(***************************************************************************)
(* The inputs: byte streams made of a prelude and of content elements,     *)
(* well-formed and not.                                                    *)
(***************************************************************************)
GoodPrelude == <<172, 237, 0, 5>>

Preludes ==
    { GoodPrelude,
      <<80>> \o GoodPrelude, <<84>> \o GoodPrelude,    \* RMI Call, RMI DgcAck
      <<0>> \o GoodPrelude, <<112>> \o GoodPrelude,    \* another leading byte
      <<172, 237, 0, 4>>, <<172, 237, 1, 5>>,          \* versions 4 and 0x0105
      <<222, 173, 0, 5>>, <<172, 0, 0, 5>>,            \* not the magic
      <<>>, <<172>> }                                  \* cut short

SimpleFrags ==
    { <<112>>,                                  \* TC_NULL
      <<113, 0, 126, 0, 0>>,                    \* TC_REFERENCE 0x7e0000
      <<113, 0, 126, 0, 1>>,                    \* TC_REFERENCE 0x7e0001
      <<113, 0, 0, 0, 0>>,                      \* TC_REFERENCE 0
      <<116, 0, 1, 65>>,                        \* TC_STRING "A"
      <<124, 0, 0, 0, 0, 0, 0, 0, 1, 66>>,      \* TC_LONGSTRING "B"
      <<119, 1, 170>>,                          \* TC_BLOCKDATA, one byte
      <<122, 0, 0, 0, 1, 170>>,                 \* TC_BLOCKDATALONG, one byte
      <<121>>,                                  \* TC_RESET
      <<123>>,                                  \* TC_EXCEPTION
      <<120>>,                                  \* TC_ENDBLOCKDATA
      <<0>> }                                   \* no tag

RECURSIVE SimpleSeqs(_)
SimpleSeqs(n) ==
    IF n = 0 THEN {<<>>}
    ELSE {<<>>} \cup {f \o r : f \in SimpleFrags, r \in SimpleSeqs(n - 1)}

Zeros8 == <<0, 0, 0, 0, 0, 0, 0, 0>>

\* a TC_CLASSDESC: name, serialVersionUID, flags, fields, annotations, super
ClassDescBytes(name, flags, nFields, fields, annotations, super) ==
    <<114, 0, Len(name)>> \o name \o Zeros8 \o <<flags, 0, nFields>> \o fields
    \o annotations \o <<120>> \o super

FieldI == <<73, 0, 1, 120>>                         \* int x
FieldL == <<76, 0, 1, 102, 116, 0, 1, 84>>          \* object f, className1 "T"
FieldArr == <<91, 0, 1, 97, 116, 0, 2, 91, 73>>     \* array a, className1 "[I"
FieldBad == <<88, 0, 1, 120>>                       \* type code 'X'

CD(name, flags) == ClassDescBytes(name, flags, 0, <<>>, <<>>, <<112>>)

Scenarios ==
    { \* proxy class descriptions
      <<125, 0, 0, 0, 0, 120, 112>>,
      <<125, 0, 0, 0, 1, 0, 1, 73, 120, 112>>,
      \* TC_CLASS
      <<118>> \o CD(<<65>>, 2),
      <<118, 112>>,
      <<118>> \o ClassDescBytes(<<65>>, 2, 0, <<>>, <<>>, CD(<<66>>, 2))
        \o <<118, 113, 0, 126, 0, 1>>,
      <<118>> \o ClassDescBytes(<<65>>, 2, 0, <<>>, <<>>, CD(<<66>>, 2))
        \o <<118, 113, 0, 126, 0, 0>>,
      <<118>> \o ClassDescBytes(<<65>>, 2, 0, <<>>, <<112, 0>>, <<112>>),
      <<118>> \o ClassDescBytes(<<65>>, 2, 1, FieldBad, <<>>, <<112>>),
      <<118>> \o CD(<<65>>, 6),
      <<118>> \o CD(<<65>>, 1),
      <<118>> \o CD(<<65>>, 5),
      <<118, 114, 0, 1, 65>>,
      \* TC_OBJECT
      <<115, 112>>,
      <<115>> \o CD(<<65>>, 0),
      <<115>> \o CD(<<65>>, 4),
      <<115>> \o CD(<<65>>, 3) \o <<112, 120>>,
      <<115>> \o CD(<<65>>, 12) \o <<119, 1, 170, 121, 120>>,
      <<115>> \o ClassDescBytes(<<65>>, 2, 1, FieldI, <<>>, <<112>>) \o <<0, 0, 0, 7>>,
      <<115>> \o ClassDescBytes(<<65>>, 2, 1, FieldI, <<>>,
                                ClassDescBytes(<<66>>, 2, 1, FieldI, <<>>, <<112>>))
        \o <<0, 0, 0, 1, 0, 0, 0, 2>>,
      <<115>> \o ClassDescBytes(<<65>>, 2, 1, FieldL, <<>>, <<112>>) \o <<116, 0, 1, 65>>,
      <<115>> \o ClassDescBytes(<<65>>, 2, 1, FieldL, <<>>, <<112>>) \o <<115, 112>>,
      <<115>> \o ClassDescBytes(<<65>>, 2, 1, FieldL, <<>>, <<112>>) \o <<118, 112>>,
      <<115>> \o ClassDescBytes(<<65>>, 2, 1, FieldL, <<>>, <<112>>) \o <<0>>,
      <<115>> \o ClassDescBytes(<<65>>, 2, 1, FieldArr, <<>>, <<112>>) \o <<112>>,
      \* TC_ARRAY
      <<117, 112>>,
      <<117>> \o CD(<<65>>, 2),
      <<117>> \o CD(<<>>, 2),
      <<117>> \o CD(<<91, 73>>, 2) \o <<0, 0, 0, 0>>,
      <<117>> \o CD(<<91, 73>>, 2) \o <<0, 0, 0, 2, 112, 113, 0, 126, 0, 0>>,
      <<117>> \o CD(<<91, 73>>, 2) \o <<0, 0, 0, 1>> \o <<117>> \o CD(<<91, 66>>, 2)
        \o <<0, 0, 0, 0>>,
      \* TC_ENUM
      <<126>> \o CD(<<69>>, 18) \o <<116, 0, 1, 88>>,
      <<126>> \o CD(<<69>>, 18) \o <<113, 0, 126, 0, 0>>,
      <<126, 112, 112>> }

Rests ==
    SimpleSeqs(MaxFrags)
    \cup {sc \o r : sc \in Scenarios, r \in SimpleSeqs(MaxFrags - 1)}

\* Streams at the edges: cut short, longer than they may be, unknown.
EdgeRests ==
    { <<116, 0, 5, 65>>,                        \* TC_STRING of 5 bytes, 1 there
      <<116, 0, 32>>,                           \* TC_STRING of 32 bytes, none there
      <<124, 0, 0, 0, 0, 0, 0, 0, 32>>,         \* TC_LONGSTRING of 32 bytes
      <<124, 0, 0, 0, 1, 0, 0, 0, 0>>,          \* TC_LONGSTRING of 2^32 bytes
      <<122, 0, 0, 0, 32>>,                     \* TC_BLOCKDATALONG of 32 bytes
      <<122, 0, 0, 1, 0, 170>>,                 \* TC_BLOCKDATALONG of 256 bytes
      <<116, 1, 1, 65>>,                        \* TC_STRING of 257 bytes, 1 there
      <<117>> \o CD(<<91, 73>>, 2) \o <<0, 0, 1, 0>>,  \* TC_ARRAY of 256 values
      <<255, 112>>,                             \* an unknown tag, then TC_NULL
      <<112, 255>>,                             \* TC_NULL, then an unknown tag
      <<115>> \o CD(<<65>>, 3) \o <<255, 120>>,  \* unknown tag in objectAnnotation
      <<118>> \o ClassDescBytes(<<65>>, 2, 0, <<>>, <<255>>, <<112>>),
                                                \* unknown tag in classAnnotations
      <<115>> \o ClassDescBytes(<<65>>, 2, 0, <<>>, <<>>, CD(<<66>>, 4)),
                                                \* super class SC_EXTERNALIZABLE
      <<115>> \o ClassDescBytes(<<65>>, 4, 0, <<>>, <<>>, CD(<<66>>, 2)) \o <<119, 1, 170>>,
      <<115>> \o ClassDescBytes(<<65>>, 3, 1, FieldI, <<>>, <<112>>)
        \o <<0, 0, 0, 7, 119, 1, 170, 120>> }  \* a field value, then an annotation

\* An object of a class with every classDescFlags byte.
FlagBytes == 0..255

FlagRests == {<<115>> \o ClassDescBytes(<<65>>, f, 1, FieldI, <<>>, <<112>>) : f \in FlagBytes}

\* An object of a class with one field of every type code byte.
TypeCodeBytes == 0..255

TypeCodeRests ==
    {<<115>> \o ClassDescBytes(<<65>>, 2, 1, <<t, 0, 1, 120>>, <<>>, <<112>>)
        \o <<0, 0, 0, 0, 0, 0, 0, 7>> : t \in TypeCodeBytes}

Inputs ==
    {GoodPrelude \o r : r \in Rests}
    \cup {p \o r : p \in Preludes, r \in SimpleSeqs(1)}
    \cup {GoodPrelude \o r : r \in EdgeRests \cup FlagRests \cup TypeCodeRests}

\* the block size set with SetMaxDataBlockSize on a parser of its own
SmallBlockSize == 16

Entries == {"ParseSerializedObject", "SerializedObjectParser_ParseSerializedObject"}

\* The parser as its entry point finds it: ParseSerializedObject(buf) sets
\* the maximum block size to len(buf); a parser made by
\* NewSerializedObjectParser alone keeps the size of its bufio.Reader.
Start(buf, entry) ==
    NewSerializedObjectParser(
        buf, IF entry = "ParseSerializedObject" THEN Len(buf) ELSE bufferSize, entry)

NoTwin == [status |-> "none"]

\* RMI packet types put in front of a stream
Prefixes == {RMI_Call, RMI_ReturnData, RMI_Ping, RMI_PingAck, RMI_DgcAck}

\* sop parses one input.  twin, when there is one, parses the same stream
\* behind a prefix byte, step by step with sop.
Init ==
    \/ /\ sop \in {Start(buf, entry) : buf \in Inputs, entry \in Entries}
       /\ twin = NoTwin
       /\ ticks = 0
    \/ /\ sop \in {NewSerializedObjectParser(
                        GoodPrelude \o r, SmallBlockSize,
                        "SerializedObjectParser_ParseSerializedObject") : r \in EdgeRests}
       /\ twin = NoTwin
       /\ ticks = 0
    \/ \E rest \in Rests, prefix \in Prefixes :
          /\ sop = Start(GoodPrelude \o rest, "ParseSerializedObject")
          /\ twin = Start(<<prefix>> \o GoodPrelude \o rest, "ParseSerializedObject")
          /\ ticks = 0

\* The content loop of the method never ends on some inputs; the model
\* follows it for MaxContent results.
Capped(s) ==
    /\ Top(s).fn = "SerializedObjectParser_ParseSerializedObject"
    /\ Top(s).pc = 3
    /\ Len(s.content) >= MaxContent

(***************************************************************************)
(* One step of the parser: the function on top of the stack runs to its    *)
(* next call or to its return.                                             *)
(***************************************************************************)
At(fn) == Running(sop) /\ Top(sop).fn = fn

\* twin is at the same place as sop
InStep == Running(twin) /\ Top(twin).fn = Top(sop).fn

\* The readers that call no other reader, as the step of their frame.
readNewStringStep(s) ==
    With(readNewString(s), LAMBDA r : Finish(r.s, [NoRet EXCEPT !.str = r.str]))
readPrevObjectStep(s) ==
    With(readPrevObject(s), LAMBDA r : Finish(r.s, [NoRet EXCEPT !.handle = r.handle]))
readNullReferenceStep(s) == Finish(readNullReference(s), NoRet)
readExceptionStep(s) == Finish(readException(s), NoRet)
handleResetStep(s) == Finish(handleReset(s), NoRet)
readBlockDataStep(s) == Finish(readBlockData(s), NoRet)
readLongBlockDataStep(s) == Finish(readLongBlockData(s), NoRet)

DoParseSerializedObject ==
    /\ At("ParseSerializedObject")
    /\ sop' = ParseSerializedObject(sop)
    /\ twin' = IF InStep THEN ParseSerializedObject(twin) ELSE twin
    /\ ticks' = 1 - ticks

DoParseSerializedObjectMethod ==
    /\ At("SerializedObjectParser_ParseSerializedObject")
    /\ ~Capped(sop)
    /\ sop' = SerializedObjectParser_ParseSerializedObject(sop)
    /\ twin' = IF InStep THEN SerializedObjectParser_ParseSerializedObject(twin) ELSE twin
    /\ ticks' = 1 - ticks

DoParseStream ==
    /\ At("parseStream")
    /\ sop' = parseStream(sop)
    /\ twin' = IF InStep THEN parseStream(twin) ELSE twin
    /\ ticks' = 1 - ticks

DoReadContentElement ==
    /\ At("readContentElement")
    /\ sop' = readContentElement(sop)
    /\ twin' = IF InStep THEN readContentElement(twin) ELSE twin
    /\ ticks' = 1 - ticks

DoContent ==
    /\ At("content")
    /\ sop' = content(sop)
    /\ twin' = IF InStep THEN content(twin) ELSE twin
    /\ ticks' = 1 - ticks

DoReadNewObject ==
    /\ At("readNewObject")
    /\ sop' = readNewObject(sop)
    /\ twin' = IF InStep THEN readNewObject(twin) ELSE twin
    /\ ticks' = 1 - ticks

DoReadClassData ==
    /\ At("readClassData")
    /\ sop' = readClassData(sop)
    /\ twin' = IF InStep THEN readClassData(twin) ELSE twin
    /\ ticks' = 1 - ticks

DoReadClassDataField ==
    /\ At("readClassDataField")
    /\ sop' = readClassDataField(sop)
    /\ twin' = IF InStep THEN readClassDataField(twin) ELSE twin
    /\ ticks' = 1 - ticks

DoReadFieldValue ==
    /\ At("readFieldValue")
    /\ sop' = readFieldValue(sop)
    /\ twin' = IF InStep THEN readFieldValue(twin) ELSE twin
    /\ ticks' = 1 - ticks

DoReadArrayField ==
    /\ At("readArrayField")
    /\ sop' = readArrayField(sop)
    /\ twin' = IF InStep THEN readArrayField(twin) ELSE twin
    /\ ticks' = 1 - ticks

DoReadObjectField ==
    /\ At("readObjectField")
    /\ sop' = readObjectField(sop)
    /\ twin' = IF InStep THEN readObjectField(twin) ELSE twin
    /\ ticks' = 1 - ticks

DoReadNewClass ==
    /\ At("readNewClass")
    /\ sop' = readNewClass(sop)
    /\ twin' = IF InStep THEN readNewClass(twin) ELSE twin
    /\ ticks' = 1 - ticks

DoReadNewArray ==
    /\ At("readNewArray")
    /\ sop' = readNewArray(sop)
    /\ twin' = IF InStep THEN readNewArray(twin) ELSE twin
    /\ ticks' = 1 - ticks

DoReadNewEnum ==
    /\ At("readNewEnum")
    /\ sop' = readNewEnum(sop)
    /\ twin' = IF InStep THEN readNewEnum(twin) ELSE twin
    /\ ticks' = 1 - ticks

DoReadClassDesc ==
    /\ At("readClassDesc")
    /\ sop' = readClassDesc(sop)
    /\ twin' = IF InStep THEN readClassDesc(twin) ELSE twin
    /\ ticks' = 1 - ticks

DoReadNewClassDesc ==
    /\ At("readNewClassDesc")
    /\ sop' = readNewClassDesc(sop)
    /\ twin' = IF InStep THEN readNewClassDesc(twin) ELSE twin
    /\ ticks' = 1 - ticks

DoReadTC_CLASSDESC ==
    /\ At("readTC_CLASSDESC")
    /\ sop' = readTC_CLASSDESC(sop)
    /\ twin' = IF InStep THEN readTC_CLASSDESC(twin) ELSE twin
    /\ ticks' = 1 - ticks

DoReadClassDescInfo ==
    /\ At("readClassDescInfo")
    /\ sop' = readClassDescInfo(sop)
    /\ twin' = IF InStep THEN readClassDescInfo(twin) ELSE twin
    /\ ticks' = 1 - ticks

DoReadSuperClassDesc ==
    /\ At("readSuperClassDesc")
    /\ sop' = readSuperClassDesc(sop)
    /\ twin' = IF InStep THEN readSuperClassDesc(twin) ELSE twin
    /\ ticks' = 1 - ticks

DoReadClassAnnotation ==
    /\ At("readClassAnnotation")
    /\ sop' = readClassAnnotation(sop)
    /\ twin' = IF InStep THEN readClassAnnotation(twin) ELSE twin
    /\ ticks' = 1 - ticks

DoReadTC_PROXYCLASSDESC ==
    /\ At("readTC_PROXYCLASSDESC")
    /\ sop' = readTC_PROXYCLASSDESC(sop)
    /\ twin' = IF InStep THEN readTC_PROXYCLASSDESC(twin) ELSE twin
    /\ ticks' = 1 - ticks

DoReadProxyClassDescInfo ==
    /\ At("readProxyClassDescInfo")
    /\ sop' = readProxyClassDescInfo(sop)
    /\ twin' = IF InStep THEN readProxyClassDescInfo(twin) ELSE twin
    /\ ticks' = 1 - ticks

DoReadNewString ==
    /\ At("readNewString")
    /\ sop' = readNewStringStep(sop)
    /\ twin' = IF InStep THEN readNewStringStep(twin) ELSE twin
    /\ ticks' = 1 - ticks

DoReadPrevObject ==
    /\ At("readPrevObject")
    /\ sop' = readPrevObjectStep(sop)
    /\ twin' = IF InStep THEN readPrevObjectStep(twin) ELSE twin
    /\ ticks' = 1 - ticks

DoReadNullReference ==
    /\ At("readNullReference")
    /\ sop' = readNullReferenceStep(sop)
    /\ twin' = IF InStep THEN readNullReferenceStep(twin) ELSE twin
    /\ ticks' = 1 - ticks

DoReadException ==
    /\ At("readException")
    /\ sop' = readExceptionStep(sop)
    /\ twin' = IF InStep THEN readExceptionStep(twin) ELSE twin
    /\ ticks' = 1 - ticks

DoHandleReset ==
    /\ At("handleReset")
    /\ sop' = handleResetStep(sop)
    /\ twin' = IF InStep THEN handleResetStep(twin) ELSE twin
    /\ ticks' = 1 - ticks

DoReadBlockData ==
    /\ At("readBlockData")
    /\ sop' = readBlockDataStep(sop)
    /\ twin' = IF InStep THEN readBlockDataStep(twin) ELSE twin
    /\ ticks' = 1 - ticks

DoReadLongBlockData ==
    /\ At("readLongBlockData")
    /\ sop' = readLongBlockDataStep(sop)
    /\ twin' = IF InStep THEN readLongBlockDataStep(twin) ELSE twin
    /\ ticks' = 1 - ticks

Next ==
    \/ DoParseSerializedObject
    \/ DoParseSerializedObjectMethod
    \/ DoParseStream
    \/ DoReadContentElement
    \/ DoContent
    \/ DoReadNewObject
    \/ DoReadClassData
    \/ DoReadClassDataField
    \/ DoReadFieldValue
    \/ DoReadArrayField
    \/ DoReadObjectField
    \/ DoReadNewClass
    \/ DoReadNewArray
    \/ DoReadNewEnum
    \/ DoReadClassDesc
    \/ DoReadNewClassDesc
    \/ DoReadTC_CLASSDESC
    \/ DoReadClassDescInfo
    \/ DoReadSuperClassDesc
    \/ DoReadClassAnnotation
    \/ DoReadTC_PROXYCLASSDESC
    \/ DoReadProxyClassDescInfo
    \/ DoReadNewString
    \/ DoReadPrevObject
    \/ DoReadNullReference
    \/ DoReadException
    \/ DoHandleReset
    \/ DoReadBlockData
    \/ DoReadLongBlockData

Spec == Init /\ [][Next]_vars

\* The parser is one synchronous call: as long as it can take a step, it
\* takes one.  Every step of Next is a Tick, and Tick is enabled exactly
\* when a step of Next is.
Tick ==
    /\ Running(sop)
    /\ ~Capped(sop)
    /\ ticks' = 1 - ticks

FairSpec == Spec /\ WF_ticks(Tick)

(***************************************************************************)
(* What a parse has done so far, read off its trace.                       *)
(***************************************************************************)
Events(s, ev) == SelectSeq(s.trace, LAMBDA e : e[1] = ev)

\* the handles assigned, in order
Handles(s) == [k \in 1..Len(Events(s, "handle")) |-> Events(s, "handle")[k][2]]

\* the number of elements begun (their tag popped) with a tag in tags
Begun(s, tags) == Len(SelectSeq(s.trace, LAMBDA e : e[1] = "begin" /\ e[2] \in tags))

\* the number of handles assigned before the k-th event of the trace
HandlesBefore(s, k) == Len(Events([s EXCEPT !.trace = SubSeq(@, 1, k - 1)], "handle"))

\* the stream begins with the magic number, behind at most one RMI packet type
PreludeAt(buf, k) ==
    /\ k = 1 => (Len(buf) > 0 /\ buf[1] \in Prefixes)
    /\ Len(buf) >= k + 2
    /\ buf[k + 1] = STREAM_MAGIC1
    /\ buf[k + 2] = STREAM_MAGIC2

GoodMagic(buf) == PreludeAt(buf, 0) \/ PreludeAt(buf, 1)

\* the two bytes behind the magic number (zero where the input has ended)
VersionWord(buf) ==
    LET k == IF PreludeAt(buf, 0) THEN 0 ELSE 1
    IN  [i \in 1..2 |-> IF k + 2 + i <= Len(buf) THEN buf[k + 2 + i] ELSE 0]

\* the parse has failed: aborted, returned an error, or is returning one
Failed(s) ==
    \/ s.status = "panic"
    \/ s.status = "done" /\ s.err # "nil"
    \/ s.status = "running" /\ s.ret.err

(***************************************************************************)
(* The claims.                                                             *)
(***************************************************************************)
\* C1: on every input, a parse by parseStream (the entry
\* ParseSerializedObject(buf)) terminates: it stops running, at the end of
\* the input or at the first error.
C1_Terminates ==
    (sop.entry = "ParseSerializedObject") => <>(sop.status # "running")

\* C2: handle ids are dense and increasing: the k-th handle assigned in a
\* parse is 0x7e0000 + (k - 1), and the next one to assign follows the last.
C2_HandlesDense ==
    /\ \A k \in 1..Len(Handles(sop)) : Handles(sop)[k] = baseWireHandle + (k - 1)
    /\ sop.handleValue = baseWireHandle + Len(Handles(sop))

\* a parse that has ended after assigning three handles or more
C2_Witness == sop.status = "done" /\ Len(Handles(sop)) >= 3

\* The tags of the elements that the handle rule names, and TC_CLASS.
HandleTags ==
    {TC_STRING, TC_LONGSTRING, TC_CLASSDESC, TC_PROXYCLASSDESC, TC_OBJECT,
     TC_ARRAY, TC_ENUM}

\* The objects, arrays, enums and classes whose tag has been read and whose
\* class description is being read (or has failed): their handle is assigned
\* behind the class description.
Pending(s) ==
    Cardinality({k \in 1..Len(s.stack) :
                    /\ s.stack[k].fn \in {"readNewObject", "readNewArray",
                                          "readNewEnum", "readNewClass"}
                    /\ s.stack[k].pc = 1})

\* C3, as the code has it: strings, class descriptions, objects, arrays,
\* enums and classes (TC_CLASS) get one handle each and nothing else gets
\* one; a string or a class description gets it as it is begun, an object,
\* array, enum or class once its class description has been read.  At every
\* point the handles assigned are the such elements begun, less those still
\* waiting for their class description.
C3_OneHandlePerElement ==
    Len(Handles(sop)) + Pending(sop) = Begun(sop, HandleTags \cup {TC_CLASS})

\* a parse that has ended having read a TC_CLASS and an object, each with a
\* new class description
C3_Witness ==
    /\ sop.status = "done"
    /\ Begun(sop, {TC_CLASS}) >= 1
    /\ Begun(sop, {TC_CLASSDESC}) >= 1
    /\ Len(Handles(sop)) >= 2

\* C3 as stated: at every point of a parse the number of handles assigned is
\* the number of strings, class descriptions, objects, arrays and enums begun.
C3_AsStated == Len(Handles(sop)) = Begun(sop, HandleTags)

\* C4: a TC_REFERENCE whose handle is below 0x7e0000, or not below the next
\* handle to assign at that moment, makes the parse fail.
C4_BadReferenceFails ==
    \A k \in 1..Len(sop.trace) :
        (/\ sop.trace[k][1] = "ref"
         /\ \/ sop.trace[k][2] < baseWireHandle
            \/ sop.trace[k][2] >= baseWireHandle + HandlesBefore(sop, k))
        => Failed(sop)

\* C5: reading a TC_RESET leaves the handle counter at 0x7e0000 and the list
\* of class descriptions empty.
C5_ResetClears ==
    [][At("handleReset")
        => (sop'.handleValue = baseWireHandle /\ sop'.classDataDescriptions = <<>>)]_vars

\* C6: when the stream does not begin with the magic number, the parse comes
\* back with an error that is not nil.
C6_BadMagicIsError ==
    (sop.status = "done" /\ ~GoodMagic(sop.buf)) => sop.err # "nil"

\* C7: when the version behind a valid magic number is not 5, no content
\* element is read, no handle is assigned and the parse comes back with an
\* error.
C7_BadVersionAbandons ==
    (GoodMagic(sop.buf) /\ VersionWord(sop.buf) # <<0, STREAM_VERSION>>)
    => /\ Begun(sop, 0..255) = 0
       /\ Len(Handles(sop)) = 0
       /\ sop.status = "done" => sop.err # "nil"

\* C8: a version word whose high byte is not zero is found invalid by the
\* walker (parseStream) and refused with an error by the value parser
\* (version).
C8_FullWordVersion ==
    (PreludeAt(sop.buf, 0) /\ VersionWord(sop.buf)[1] # 0)
    => /\ (sop.entry = "ParseSerializedObject" /\ sop.status = "done")
          => Len(Events(sop, "invalidVersion")) = 1
       /\ (sop.entry = "SerializedObjectParser_ParseSerializedObject"
           /\ sop.status = "done")
          => sop.err # "nil"

\* C9: the first step of parseStream takes a leading byte out of the input
\* only when it is one of the RMI packet types 0x50..0x54; any other byte is
\* still the next byte to read.
C9_OnlyRmiByteConsumed ==
    [][(/\ At("parseStream")
        /\ Top(sop).pc = 0
        /\ Len(sop.buf) > 0
        /\ sop.buf[1] \notin Prefixes)
       => (sop'.rdPos = 1 /\ sop'.data = <<sop.buf[1]>>)]_vars

\* what a parse has read and assigned, the RMI packet type left out
Outcome(s) ==
    [events |-> SelectSeq(s.trace, LAMBDA e : e[1] # "rmi"),
     status |-> s.status,
     err |-> s.err,
     stack |-> s.stack,
     ret |-> s.ret,
     handleValue |-> s.handleValue,
     classDataDescriptions |-> s.classDataDescriptions]

HasGoodPrelude(buf) == Len(buf) >= 4 /\ SubSeq(buf, 1, 4) = GoodPrelude

C11_EofIsError ==
    (/\ sop.status = "done"
     /\ HasGoodPrelude(sop.buf)
     /\ Len(Events(sop, "eofPop")) > 0)
    => sop.err # "nil"

\* the tags a content element can begin with
RecognisedTags == TC_NULL..TC_ENUM

\* the next byte is a byte of the input and no recognised tag
UnknownTagAhead(s) ==
    /\ Len(Events(s, "eofPeek")) = 0
    /\ Len(s.data) > 0 \/ s.rdPos < Len(s.buf)
    /\ peek(s).b \notin RecognisedTags

\* the function on top of the stack returns an error to its caller, or the
\* parse comes back with one
ReturnsError(s, t) ==
    \/ t.status = "done" /\ t.err # "nil"
    \/ Running(t) /\ t.ret.err /\ Len(t.stack) < Len(s.stack)

\* C12: an unknown tag where a content element begins makes the dispatch
\* (readContentElement, content) return an error, and an error returned is
\* handed up by every caller until the parse comes back with it: nothing
\* more is read.
C12_BadTagAbandons ==
    [][/\ (/\ Running(sop)
           /\ Top(sop).fn \in {"readContentElement", "content"}
           /\ Top(sop).pc = 0
           /\ UnknownTagAhead(sop))
          => ReturnsError(sop, sop')
       /\ (/\ Running(sop)
           /\ sop.ret.err
           /\ Len(Events(sop, "eofPeek")) = 0)
          => ReturnsError(sop, sop')]_vars

\* bit m of the flags byte b is set
HasFlag(b, m) == (b \div m) % 2 = 1

\* the four rules of the classDescFlags
FlagsAccepted(b) ==
    /\ ~(HasFlag(b, SC_SERIALIZABLE) /\ HasFlag(b, SC_EXTERNALIZABLE))
    /\ ~(HasFlag(b, SC_SERIALIZABLE) /\ HasFlag(b, SC_BLOCK_DATA))
    /\ ~(HasFlag(b, SC_EXTERNALIZABLE) /\ HasFlag(b, SC_WRITE_METHOD))
    /\ (~HasFlag(b, SC_SERIALIZABLE) /\ ~HasFlag(b, SC_EXTERNALIZABLE)) => b = 0

\* C13: readClassDescInfo accepts the flags byte exactly when the four rules
\* hold.  A byte that breaks one aborts the parse there: nothing is read
\* behind the flags byte and the class has no field.  A byte that keeps them
\* is not refused.
C13_FlagRules ==
    [][(At("readClassDescInfo") /\ Top(sop).pc = 0)
       => IF FlagsAccepted(pop(sop).b)
          THEN sop'.err # "Illegal classDescFlags"
          ELSE /\ sop'.status = "panic"
               /\ sop'.err = "Illegal classDescFlags"
               /\ sop'.rdPos = pop(sop).s.rdPos
               /\ Last(Top(sop').cdd.classDetails).fieldDescriptions = <<>>]_vars

\* a parse aborted on the flags byte, the field descriptions still unread
C13_Witness ==
    /\ sop.status = "panic"
    /\ sop.err = "Illegal classDescFlags"
    /\ sop.rdPos < Len(sop.buf)
    /\ Top(sop).fn = "readClassDescInfo"

\* Whole, valid top-level elements (a null, the string "A", a block of one
\* byte), and the streams made of up to n of them with their number.
WholeFrags == {<<TC_NULL>>, <<TC_STRING, 0, 1, 65>>, <<TC_BLOCKDATA, 1, 170>>}

RECURSIVE WholeStreams(_)
WholeStreams(n) ==
    IF n = 0 THEN {[bytes |-> <<>>, count |-> 0]}
    ELSE WholeStreams(n - 1)
         \cup {[bytes |-> f \o w.bytes, count |-> w.count + 1] :
                  f \in WholeFrags, w \in WholeStreams(n - 1)}

\* C14: the parse of a valid stream comes back without an error and with as
\* many contents as the stream has top-level elements behind the prelude.
C14_ContentsListed ==
    \A w \in WholeStreams(MaxFrags) :
        (sop.status = "done" /\ sop.buf = GoodPrelude \o w.bytes)
        => (sop.err = "nil" /\ Len(sop.content) = w.count)

\* C15: the parse never aborts: whatever it finds wrong in the stream comes
\* back to the caller as an error.
C15_NeverPanics == sop.status # "panic"

DeclaredLength(s, n) == BigEndian(SubSeq(s.buf, s.rdPos + 1, s.rdPos + n))

\* C17: a TC_BLOCKDATALONG whose 32-bit length is above maxDataBlockSize
\* fails, and nothing behind the length has been read.
C17_LongBlockGuarded ==
    [][(/\ At("readLongBlockData")
        /\ sop.rdPos + 4 <= Len(sop.buf)
        /\ DeclaredLength(sop, 4) > sop.maxDataBlockSize)
       => (Failed(sop') /\ sop'.rdPos = sop.rdPos + 4)]_vars

\* the bytes of the stream from the reader's position on, the lookahead first
Ahead(s) == s.data \o SubSeq(s.buf, s.rdPos + 1, Len(s.buf))

\* the number of bytes the reader has taken out of the stream
Consumed(s) == s.rdPos - Len(s.data)

\* the last three bytes of bs, or all of it when it is shorter
LowBytes(bs) ==
    IF Len(bs) <= 3 THEN bs ELSE SubSeq(bs, Len(bs) - 2, Len(bs))

\* the big-endian number in bs is above n (n below 2^24)
LongerThan(bs, n) ==
    \/ \E i \in 1..(Len(bs) - 3) : bs[i] # 0
    \/ BigEndian(LowBytes(bs)) > n

\* a string element is ahead whose length field, of k bytes, is above the
\* parser's maxDataBlockSize
OversizedString(s, tag, k) ==
    /\ Len(Events(s, "eofPeek")) = 0
    /\ Len(Ahead(s)) >= 1 + k
    /\ Ahead(s)[1] = tag
    /\ LongerThan(SubSeq(Ahead(s), 2, 1 + k), s.maxDataBlockSize)

\* C18: a TC_STRING whose 16-bit length, or a TC_LONGSTRING whose 64-bit
\* length, is above maxDataBlockSize fails, and nothing behind the length
\* has been read.
C18_StringGuarded ==
    [][/\ (At("readNewString") /\ OversizedString(sop, TC_STRING, 2))
            => (Failed(sop') /\ Consumed(sop') = Consumed(sop) + 3)
       /\ (At("readNewString") /\ OversizedString(sop, TC_LONGSTRING, 8))
            => (Failed(sop') /\ Consumed(sop') = Consumed(sop) + 9)]_vars

\* the class whose data readClassData is about to read
ClassInHand(s) == Top(s).cdd.classDetails[Top(s).i + 1]

\* readClassData has read the field values of a class and is at the test of
\* the class's flags, the class being externalizable without block data
AtProtocol1External(s) ==
    /\ Running(s)
    /\ Top(s).fn = "readClassData"
    /\ Top(s).pc = 3
    /\ HasFlag(ClassInHand(s).classDescFlags, SC_EXTERNALIZABLE)
    /\ ~HasFlag(ClassInHand(s).classDescFlags, SC_BLOCK_DATA)

\* C19: reading the class data fails at every class of the chain that has
\* SC_EXTERNALIZABLE set and SC_BLOCK_DATA clear, and no byte of the class's
\* annotation is taken from the stream.
C19_Protocol1ExternalFails ==
    [][AtProtocol1External(sop)
       => (/\ Failed(sop')
           /\ sop'.err = "Unable to parse externalContents element"
           /\ Consumed(sop') = Consumed(sop)
           /\ sop'.nPos = sop.nPos)]_vars

\* the class data of an object with a chain of two classes has failed at an
\* externalizable class without block data, with bytes left in the stream
C19_Witness ==
    /\ Failed(sop)
    /\ sop.err = "Unable to parse externalContents element"
    /\ Top(sop).fn = "readClassData"
    /\ Len(Top(sop).cdd.classDetails) = 2
    /\ Consumed(sop) < Len(sop.buf)

\* readNewObject has come back from readClassDesc, which has read a TC_NULL
\* where the object's class description stands
NullClassDescRead(s) ==
    /\ Running(s)
    /\ Top(s).fn = "readNewObject"
    /\ Top(s).pc = 1
    /\ s.ret.cdd.isNil
    /\ Last(Events(s, "begin")) = <<"begin", TC_NULL>>

\* C20: a TC_OBJECT with a TC_NULL where its class description stands is
\* rejected: the parse fails, no object comes of it.
C20_NullClassRejected ==
    [][NullClassDescRead(sop)
       => (Failed(sop') /\ Events(sop', "handle") = Events(sop, "handle"))]_vars

\* the type codes B C D F I J S Z L [
LegalTypeCodes == {66, 67, 68, 70, 73, 74, 83, 90, 76, 91}

\* the class descriptions the parser holds: those it has finished and those
\* on its way
DescriptionsHeld(s) ==
    {s.classDataDescriptions[k] : k \in 1..Len(s.classDataDescriptions)}
    \cup {s.stack[k].cdd : k \in 1..Len(s.stack)}
    \cup {s.ret.cdd}

\* the type codes of the fields of a class description
TypeCodesOf(cdd) ==
    UNION {{cdd.classDetails[c].fieldDescriptions[k].typeCode :
                k \in 1..Len(cdd.classDetails[c].fieldDescriptions)} :
           c \in 1..Len(cdd.classDetails)}

\* the type codes of the fields described so far
TypeCodesDescribed(s) == UNION {TypeCodesOf(cdd) : cdd \in DescriptionsHeld(s)}

\* the type codes a value is being read for
TypeCodesRead(s) ==
    {s.stack[k].n : k \in {j \in 1..Len(s.stack) :
        s.stack[j].fn \in {"readClassDataField", "readFieldValue"}}}

\* C21: a field description with a type code that is not one of
\* B C D F I J S Z L [ ends the parse, and no value is read for a type code
\* outside that set.
C21_IllegalTypeCodeFatal ==
    /\ ~(TypeCodesDescribed(sop) \subseteq LegalTypeCodes)
           => (sop.status = "panic" /\ sop.err = "Illegal field type code")
    /\ TypeCodesRead(sop) \subseteq LegalTypeCodes

\* the parse has ended at a field description with an illegal type code
C21_Witness ==
    /\ sop.status = "panic"
    /\ sop.err = "Illegal field type code"
    /\ Top(sop).fn = "readClassDescInfo"
    /\ ~(TypeCodesDescribed(sop) \subseteq LegalTypeCodes)

(***************************************************************************)
(* The minimal conversion: jsonFriendlyObject, jsonFriendlyArray and       *)
(* jsonFriendlyMap.  They are functions of their argument alone.  A value  *)
(* of type interface{} is a pair <<dynamic type, value>>: a                *)
(* map[string]interface{} is <<"map", m>> with m a function on its keys,   *)
(* a []interface{} is <<"arr", a>> with a a sequence, a *clazz is          *)
(* <<"clazz", name>> and an int is <<"int", n>>.                           *)
(***************************************************************************)
RECURSIVE jsonFriendlyObject(_)

\* jsonFriendlyArray: every member converted, in place.
jsonFriendlyArray(arrayObj) ==
    [idx \in 1..Len(arrayObj) |-> jsonFriendlyObject(arrayObj[idx])]

\* jsonFriendlyMap: the key "extends" and the values that are a *clazz are
\* left out, every other value is converted.
jsonFriendlyMap(mapObj) ==
    [k \in {j \in DOMAIN mapObj : j # "extends" /\ mapObj[j][1] # "clazz"}
        |-> jsonFriendlyObject(mapObj[k])]

\* A jsonFriendlyObject that promotes the "value" entry of the map it was
\* given, not that of the converted map.
jsonFriendlyObject_PromotesRaw(obj) ==
    CASE obj[1] = "map" ->
            With(jsonFriendlyMap(obj[2]), LAMBDA jsonMap :
                IF /\ "value" \in DOMAIN jsonMap
                   /\ ("@" \in DOMAIN jsonMap \/ Cardinality(DOMAIN jsonMap) = 1)
                THEN obj[2]["value"]
                ELSE <<"map", jsonMap>>)
      [] obj[1] = "arr" -> <<"arr", jsonFriendlyArray(obj[2])>>
      [] OTHER -> obj

\* jsonFriendlyObject: a map is converted and, when it has a "value" entry
\* and either a "@" entry or no other entry, replaced by that entry; an
\* array is converted; anything else is returned as it is.
jsonFriendlyObject(obj) ==
    CASE obj[1] = "map" ->
            With(jsonFriendlyMap(obj[2]), LAMBDA jsonMap :
                IF /\ "value" \in DOMAIN jsonMap
                   /\ ("@" \in DOMAIN jsonMap \/ Cardinality(DOMAIN jsonMap) = 1)
                THEN jsonMap["value"]
                ELSE <<"map", jsonMap>>)
      [] obj[1] = "arr" -> <<"arr", jsonFriendlyArray(obj[2])>>
      [] OTHER -> obj

\* The values the conversion is applied to.
\* the longest array
MaxArrayLen == 2
\* how deep maps and arrays are nested
MaxDepth == 2
\* how many times in a row a conversion is applied
MaxCalls == 2

Keys == {"value", "@", "extends", "a"}
Leaves == {<<"int", 1>>, <<"int", 2>>, <<"clazz", "A">>}

MapsOf(vals) == UNION {[S -> vals] : S \in SUBSET Keys}
ArraysOf(vals) == UNION {[1..n -> vals] : n \in 0..MaxArrayLen}

\* a value in an array of its own, in a map under one key, and in a map
\* under "value" next to a second entry
Wrapped(vals) ==
    {<<"arr", <<v>>>> : v \in vals}
    \cup {<<"map", [k \in {key} |-> v]>> : key \in Keys, v \in vals}
    \cup {<<"map", [k \in {"value", key} |-> IF k = "value" THEN v ELSE <<"int", 1>>]>> :
            key \in {"@", "a"}, v \in vals}

RECURSIVE Trees(_)
Trees(depth) ==
    IF depth <= 1
    THEN Leaves \cup {<<"map", m>> : m \in MapsOf(Leaves)}
                \cup {<<"arr", a>> : a \in ArraysOf(Leaves)}
    ELSE Trees(depth - 1) \cup Wrapped(Trees(depth - 1))

NoValue == <<"none", 0>>

\* A call of fn on obj, not yet made.
NewCall(fn, obj) ==
    [fn |-> fn, obj |-> obj, calls |-> 0, jsonObj |-> NoValue, prev |-> NoValue]

\* the argument of the next call: obj, then the result of the call before
Argument(c) == IF c.calls = 0 THEN c.obj ELSE c.jsonObj

Returned(c, jsonObj) ==
    [c EXCEPT !.calls = @ + 1, !.prev = c.jsonObj, !.jsonObj = jsonObj]

MinimalInit ==
    /\ sop \in {NewCall("jsonFriendlyObject", x) : x \in Trees(MaxDepth)}
               \cup {NewCall("jsonFriendlyArray", x) :
                        x \in {t \in Trees(MaxDepth) : t[1] = "arr"}}
               \cup {NewCall("jsonFriendlyMap", x) :
                        x \in {t \in Trees(MaxDepth) : t[1] = "map"}}
    /\ twin = NoTwin
    /\ ticks = 0

DoJsonFriendlyObject ==
    /\ sop.fn = "jsonFriendlyObject"
    /\ sop.calls < MaxCalls
    /\ sop' = Returned(sop, jsonFriendlyObject(Argument(sop)))
    /\ twin' = twin
    /\ ticks' = 1 - ticks

DoJsonFriendlyArray ==
    /\ sop.fn = "jsonFriendlyArray"
    /\ sop.calls < MaxCalls
    /\ sop' = Returned(sop, <<"arr", jsonFriendlyArray(Argument(sop)[2])>>)
    /\ twin' = twin
    /\ ticks' = 1 - ticks

DoJsonFriendlyMap ==
    /\ sop.fn = "jsonFriendlyMap"
    /\ sop.calls < MaxCalls
    /\ sop' = Returned(sop, <<"map", jsonFriendlyMap(Argument(sop)[2])>>)
    /\ twin' = twin
    /\ ticks' = 1 - ticks

MinimalNext ==
    \/ DoJsonFriendlyObject
    \/ DoJsonFriendlyArray
    \/ DoJsonFriendlyMap

MinimalSpec == MinimalInit /\ [][MinimalNext]_vars

\* a *clazz is in the value x, at any depth
RECURSIVE ContainsClazz(_)
ContainsClazz(x) ==
    CASE x[1] = "clazz" -> TRUE
      [] x[1] = "map" -> \E k \in DOMAIN x[2] : ContainsClazz(x[2][k])
      [] x[1] = "arr" -> \E i \in 1..Len(x[2]) : ContainsClazz(x[2][i])
      [] OTHER -> FALSE

\* C22: what jsonFriendlyArray returns for a list of contents holds no
\* *clazz, at any depth.
C22_NoClassDescriptor ==
    (sop.fn = "jsonFriendlyArray" /\ sop.calls >= 1) => ~ContainsClazz(sop.jsonObj)

\* C23: converting a converted value changes nothing.
C23_Idempotent ==
    (sop.fn = "jsonFriendlyObject" /\ sop.calls = 2) => sop.jsonObj = sop.prev

\* a map that the conversion has changed has been converted a second time
C23_Witness ==
    /\ sop.fn = "jsonFriendlyObject"
    /\ sop.calls = 2
    /\ sop.obj[1] = "map"
    /\ sop.prev # sop.obj
    /\ sop.prev[1] = "map"

\* the keys of the map m that are not "extends" and whose value is no *clazz
RemainingKeys(m) == {k \in DOMAIN m : k # "extends" /\ m[k][1] # "clazz"}

\* C24: a map is replaced by its "value" entry only when its remaining keys
\* are exactly {value} or exactly {value, @}; with any other key it stays a
\* map that has all its remaining keys.
C24_PromotedOnlyWhenAlone ==
    (sop.fn = "jsonFriendlyObject" /\ sop.calls = 1 /\ sop.obj[1] = "map")
    => IF RemainingKeys(sop.obj[2]) \in {{"value"}, {"value", "@"}}
       THEN sop.jsonObj = jsonFriendlyObject(sop.obj[2]["value"])
       ELSE /\ sop.jsonObj[1] = "map"
            /\ DOMAIN sop.jsonObj[2] = RemainingKeys(sop.obj[2])

\* the handles of the classes of the descriptions read so far
ClassHandles(s) ==
    UNION {{s.classDataDescriptions[k].classDetails[c].refHandle :
                c \in 1..Len(s.classDataDescriptions[k].classDetails)} :
           k \in 1..Len(s.classDataDescriptions)}

\* readClassDesc is at a TC_REFERENCE whose handle is that of a class
\* description read before
AtClassReference(s) ==
    /\ Running(s)
    /\ Top(s).fn = "readClassDesc"
    /\ Len(Events(s, "eofPeek")) = 0
    /\ Len(Ahead(s)) >= 5
    /\ Ahead(s)[1] = TC_REFERENCE
    /\ BigEndian(SubSeq(Ahead(s), 2, 5)) \in ClassHandles(s)

\* C25: where a class description stands, a reference to the handle of a
\* class description read before resolves, without error, to the chain of
\* classes that begins with that description.
C25_ClassReferenceResolves ==
    [][AtClassReference(sop)
       => (/\ ~Failed(sop')
           /\ ~sop'.ret.cdd.isNil
           /\ sop'.ret.cdd.classDetails[1].refHandle
                 = BigEndian(SubSeq(Ahead(sop), 2, 5)))]_vars

(***************************************************************************)
(* buildClassDataDescFromIndex as a function of its receiver and its       *)
(* argument: no reference resolves in a parse, so the function is applied  *)
(* here to class descriptions of its own.                                  *)
(***************************************************************************)
\* the longest chain of classes in a description
MaxChain == 3

ChainClasses ==
    {[NewClassDetails(<<n>>) EXCEPT !.refHandle = h] :
        n \in {65, 66}, h \in {baseWireHandle, baseWireHandle + 1, baseWireHandle + 2}}

Chains == UNION {[1..n -> ChainClasses] : n \in 1..MaxChain}

\* A call of buildClassDataDescFromIndex(index) on cdd, not yet made.
NewChainCall(cdd, index) ==
    [fn |-> "buildClassDataDescFromIndex", this |-> cdd, index |-> index,
     returned |-> FALSE, result |-> NilClassDataDesc, before |-> cdd]

ChainInit ==
    /\ sop \in {NewChainCall(NewClassDataDesc1(c), i) :
                    <<c, i>> \in {<<d, j>> \in Chains \X (0..(MaxChain - 1)) : j < Len(d)}}
    /\ twin = NoTwin
    /\ ticks = 0

DoBuildClassDataDescFromIndex ==
    /\ ~sop.returned
    /\ sop' = [sop EXCEPT !.returned = TRUE,
                          !.result = buildClassDataDescFromIndex(sop.this, sop.index)]
    /\ twin' = twin
    /\ ticks' = 1 - ticks

ChainNext == DoBuildClassDataDescFromIndex

ChainSpec == ChainInit /\ [][ChainNext]_vars

\* C26: buildClassDataDescFromIndex(N) on the chain c0 .. ck returns the
\* classes cN .. ck, and the chain it was called on is as it was.
C26_IndexHonoured ==
    (sop.fn = "buildClassDataDescFromIndex" /\ sop.returned)
    => /\ sop.result.classDetails
             = SubSeq(sop.this.classDetails, sop.index + 1, Len(sop.this.classDetails))
       /\ sop.this = sop.before

\* the number a length field of n bytes stands for: the next n bytes of the
\* stream, the first the most significant
LengthAhead(s, skip, n) == BigEndian(SubSeq(Ahead(s), skip + 1, skip + n))

\* C27: a length or count of several bytes is the big-endian value of all
\* its bytes: the string read for a TC_STRING has the length its two length
\* bytes give, and an array has the number of values its four size bytes
\* give.
C27_LengthsBigEndian ==
    [][/\ (/\ At("readNewString")
           /\ Len(Events(sop, "eofPeek")) = 0
           /\ Len(Ahead(sop)) >= 3
           /\ Ahead(sop)[1] = TC_STRING
           /\ Running(sop'))
          => Len(sop'.ret.str) = LengthAhead(sop, 1, 2)
       /\ (/\ At("readNewArray")
           /\ Top(sop).pc = 1
           /\ Len(Ahead(sop)) >= 4
           /\ Running(sop'))
          => Top(sop').n = LengthAhead(sop, 0, 4)]_vars

\* readNewArray is about to read one more value of its array, whose class
\* name has a second character
AtArrayValue(s) ==
    /\ Running(s)
    /\ Top(s).fn = "readNewArray"
    /\ Top(s).pc = 2
    /\ Top(s).i < Top(s).n
    /\ Len(Top(s).cdd.classDetails[1].className) >= 2

\* C28: every value of an array is read with the type code that is the
\* second character of the array's class name: four bytes for "[I", and a
\* content element for 'L' and '[' only.
C28_ElementTypeFromName ==
    [][AtArrayValue(sop)
       => (/\ Top(sop').fn = "readFieldValue"
           /\ Top(sop').n = Top(sop).cdd.classDetails[1].className[2])]_vars

\* a dispatcher is about to dispatch on a tag from 0x70 to 0x7E
AtDispatch(s) ==
    /\ Running(s)
    /\ Top(s).fn \in {"readContentElement", "content"}
    /\ Top(s).pc = 0
    /\ Len(s.data) > 0 \/ s.rdPos < Len(s.buf)
    /\ peek(s).b \in RecognisedTags

\* the parsers a dispatcher calls that begin with the tag (readNewClassDesc
\* hands over to readTC_CLASSDESC or readTC_PROXYCLASSDESC)
DispatchedParsers ==
    {"readNewObject", "readNewClass", "readNewArray", "readNewString", "readNewEnum",
     "readTC_CLASSDESC", "readTC_PROXYCLASSDESC", "readPrevObject",
     "readNullReference", "readException", "handleReset", "readBlockData",
     "readLongBlockData"}

\* C29: a dispatch on a tag from 0x70 to 0x7E that comes back without an
\* error has taken at least the tag from the stream: the dispatcher does not
\* come back at once, and the parser it calls begins by taking the tag.
C29_DispatchConsumesTag ==
    [][/\ (/\ AtDispatch(sop)
           /\ Len(sop'.stack) < Len(sop.stack)
           /\ ~Failed(sop'))
          => Consumed(sop') > Consumed(sop)
       /\ (/\ Running(sop)
           /\ Top(sop).fn \in DispatchedParsers
           /\ Top(sop).pc = 0
           /\ ~Failed(sop'))
          => Consumed(sop') > Consumed(sop)]_vars

\* the descriptions whose classDescInfo is being read, outermost first
OpenDescriptions(s) ==
    SelectSeq(s.stack, LAMBDA f : f.fn = "readClassDescInfo")

\* the bytes of the class description in hand up to its flags: the tag, the
\* length of the name, the name and the serialVersionUID
ClassDescHead(s) == 1 + 2 + Len(Last(Top(s).cdd.classDetails).className) + 8

\* the handles assigned by the step from s to t
NewHandles(s, t) ==
    {Handles(t)[k] : k \in (Len(Handles(s)) + 1)..Len(Handles(t))}

\* C30: a TC_CLASSDESC gets its handle when its name and its
\* serialVersionUID have been taken from the stream and its flags byte has
\* not; every handle assigned while its fields, its annotations and its
\* super classes are read is greater.
C30_HandleBeforeFlags ==
    [][/\ (/\ At("readTC_CLASSDESC")
           /\ Top(sop).pc = 0
           /\ Running(sop'))
          => /\ Top(sop').fn = "readClassDescInfo"
             /\ Top(sop').pc = 0
             /\ NewHandles(sop, sop') = {sop.handleValue}
             /\ Last(Top(sop').cdd.classDetails).refHandle = sop.handleValue
             /\ Len(Ahead(sop)) >= ClassDescHead(sop')
                   => Consumed(sop') = Consumed(sop) + ClassDescHead(sop')
       /\ \A k \in 1..Len(OpenDescriptions(sop)) :
             \A h \in NewHandles(sop, sop') :
                 h > OpenDescriptions(sop)[k].cdd.classDetails[1].refHandle]_vars

\* a class description has its handle and, while its classDescInfo is being
\* read, a handle has been assigned after it
C30_Witness ==
    /\ Running(sop)
    /\ Len(OpenDescriptions(sop)) >= 1
    /\ OpenDescriptions(sop)[1].cdd.classDetails[1].refHandle >= baseWireHandle
    /\ sop.handleValue > OpenDescriptions(sop)[1].cdd.classDetails[1].refHandle + 1

\* the handles of the classes of a description
HandlesOfClasses(cdd) ==
    {cdd.classDetails[c].refHandle : c \in 1..Len(cdd.classDetails)}

\* the element in hand has its class description and no handle yet
ClassDescReturned(s, fn) ==
    /\ Running(s)
    /\ Top(s).fn = fn
    /\ Top(s).pc = 1

\* C31: a TC_OBJECT and a TC_ENUM get their handle when their class
\* description has been read and before their class data or constant name
\* is: the handles of the classes of the description are smaller, the
\* handles assigned after it are greater.
C31_HandleAfterClassDesc ==
    [][/\ (Running(sop) /\ Top(sop).fn \in {"readNewObject", "readNewEnum"}
             /\ Top(sop).pc = 0)
          => NewHandles(sop, sop') = {}
       /\ (ClassDescReturned(sop, "readNewObject") /\ Running(sop'))
          => /\ NewHandles(sop, sop') = {sop.handleValue}
             /\ \A h \in HandlesOfClasses(sop.ret.cdd) : h < sop.handleValue
             /\ Top(sop').fn = "readClassData"
             /\ Top(sop').pc = 0
             /\ Consumed(sop') = Consumed(sop)
       /\ (ClassDescReturned(sop, "readNewEnum") /\ Running(sop'))
          => /\ Handles(sop')[Len(Handles(sop)) + 1] = sop.handleValue
             /\ \A h \in HandlesOfClasses(sop.ret.cdd) : h < sop.handleValue
             /\ \A h \in NewHandles(sop, sop') : h >= sop.handleValue
       /\ \A k \in 1..Len(sop.stack) :
             (sop.stack[k].fn = "readClassData" /\ ~sop.stack[k].cdd.isNil)
             => \A h \in NewHandles(sop, sop') :
                    \A c \in HandlesOfClasses(sop.stack[k].cdd) : h > c + 1]_vars

\* while the class data of an object is being read, a value nested in it has
\* just been given a handle
C31_Witness ==
    /\ Running(sop)
    /\ Len(sop.trace) > 0
    /\ Last(sop.trace)[1] = "handle"
    /\ \E k \in 1..(Len(sop.stack) - 1) :
          /\ sop.stack[k].fn = "readClassData"
          /\ ~sop.stack[k].cdd.isNil
          /\ \A c \in HandlesOfClasses(sop.stack[k].cdd) : Last(sop.trace)[2] > c + 1

\* the step from s to t is a step of one readClassData call that stays in it
InClassData(s, t) ==
    /\ Running(s)
    /\ Running(t)
    /\ Top(s).fn = "readClassData"
    /\ Len(t.stack) = Len(s.stack)
    /\ Top(t).fn = "readClassData"

\* C32: the class data of an object is read from the top-most super class
\* down to the declared class.  The chain of a description is the declared
\* class followed by its super classes; readClassData begins at the last
\* class of the chain, goes one class down when it has finished a class, and
\* returns when it has finished the declared class.
C32_SuperClassFirst ==
    [][/\ (At("readClassDescInfo") /\ Top(sop).pc = 2 /\ Running(sop'))
          => sop'.ret.cdd.classDetails
                = <<Top(sop).cdd.classDetails[1]>> \o sop.ret.cdd.classDetails
       /\ (InClassData(sop, sop') /\ Top(sop).pc = 0)
          => Top(sop').i = Len(Top(sop).cdd.classDetails) - 1
       /\ (InClassData(sop, sop') /\ Top(sop).pc # 0)
          => /\ Top(sop').cdd = Top(sop).cdd
             /\ Top(sop').i = IF Top(sop).pc = 5 THEN Top(sop).i - 1 ELSE Top(sop).i
       /\ (/\ At("readClassData")
           /\ ~Top(sop).cdd.isNil
           /\ Running(sop')
           /\ Len(sop'.stack) < Len(sop.stack))
          => (Top(sop).pc = 1 /\ Top(sop).i = -1)]_vars

\* an object of a class with a super class: the class data of the super
\* class has been read, that of the declared class is next
C32_Witness ==
    /\ At("readClassData")
    /\ Len(Top(sop).cdd.classDetails) = 2
    /\ Top(sop).pc = 1
    /\ Top(sop).i = 0
    /\ Consumed(sop) < Len(sop.buf)

\* the class whose data readClassData is reading
ClassOfData(s) == Top(s).cdd.classDetails[Top(s).i + 1]

\* readClassData is at the position pc of the class at classIndex >= 0
AtClassData(s, pc) ==
    /\ Running(s) /\ Top(s).fn = "readClassData" /\ Top(s).pc = pc
    /\ Top(s).pc # 0 /\ Top(s).i >= 0

\* C33: what readClassData reads for a class follows the flags of the class.
\* An SC_SERIALIZABLE class has one value read for each declared field, in
\* the order of declaration, and these steps take no byte themselves; without
\* SC_WRITE_METHOD no annotation follows, with SC_WRITE_METHOD the content
\* elements follow until the TC_ENDBLOCKDATA, which is consumed; an
\* SC_EXTERNALIZABLE class with SC_BLOCK_DATA has no field value read, only
\* the content elements up to and including the TC_ENDBLOCKDATA.
C33_ClassDataFollowsFlags ==
    [][(Running(sop') /\ \E pc \in 1..5 : AtClassData(sop, pc)) =>
        LET f == Top(sop)
            cd == ClassOfData(sop)
            fields == cd.fieldDescriptions
        IN  /\ (f.pc = 1 /\ isSC_SERIALIZABLE(cd)) =>
                 /\ Top(sop').fn = "readClassData" /\ Top(sop').pc = 2
                 /\ Top(sop').n = 0 /\ Ahead(sop') = Ahead(sop)
            /\ (f.pc = 1 /\ ~isSC_SERIALIZABLE(cd)) =>
                 /\ Top(sop').fn = "readClassData" /\ Top(sop').pc = 3
                 /\ Ahead(sop') = Ahead(sop)
            /\ f.pc = 2 => isSC_SERIALIZABLE(cd)
            /\ (f.pc = 2 /\ f.n < Len(fields)) =>
                 /\ Len(sop'.stack) = Len(sop.stack) + 1
                 /\ Top(sop').fn = "readClassDataField"
                 /\ Top(sop').n = fields[f.n + 1].typeCode
                 /\ sop'.stack[Len(sop.stack)].n = f.n + 1
                 /\ sop'.stack[Len(sop.stack)].pc = 2
                 /\ Ahead(sop') = Ahead(sop)
            /\ (f.pc = 2 /\ ~(f.n < Len(fields))) =>
                 /\ f.n = Len(fields)
                 /\ Top(sop').fn = "readClassData" /\ Top(sop').pc = 3
                 /\ Ahead(sop') = Ahead(sop)
            /\ f.pc = 3 =>
                 /\ Top(sop').fn = "readClassData"
                 /\ Ahead(sop') = Ahead(sop)
                 /\ Top(sop').pc =
                      IF \/ isSC_SERIALIZABLE(cd) /\ isSC_WRITE_METHOD(cd)
                         \/ isSC_EXTERNALIZABLE(cd) /\ isSC_BLOCK_DATA(cd)
                      THEN 4 ELSE 5
            /\ f.pc = 4 =>
                 /\ \/ isSC_SERIALIZABLE(cd) /\ isSC_WRITE_METHOD(cd)
                    \/ isSC_EXTERNALIZABLE(cd) /\ isSC_BLOCK_DATA(cd)
                 /\ IF Len(sop'.stack) = Len(sop.stack)
                    THEN /\ Top(sop').pc = 5
                         /\ Ahead(sop) # <<>>
                         /\ Head(Ahead(sop)) = TC_ENDBLOCKDATA
                         /\ Ahead(sop') = Tail(Ahead(sop))
                    ELSE /\ Len(sop'.stack) = Len(sop.stack) + 1
                         /\ Top(sop').fn = "readContentElement"
                         /\ sop'.stack[Len(sop.stack)].pc = 4
                         /\ Len(Ahead(sop)) >= 1 =>
                              /\ Head(Ahead(sop)) # TC_ENDBLOCKDATA
                              /\ Ahead(sop') = Ahead(sop)
            /\ f.pc = 5 =>
                 /\ Top(sop').fn = "readClassData" /\ Top(sop').pc = 1
                 /\ Top(sop').i = f.i - 1
    ]_vars

\* the data of a class with SC_WRITE_METHOD and a field has been read up to
\* and including the TC_ENDBLOCKDATA of its annotation, which held an element
C33_Witness ==
    /\ AtClassData(sop, 5)
    /\ isSC_SERIALIZABLE(ClassOfData(sop))
    /\ isSC_WRITE_METHOD(ClassOfData(sop))
    /\ Top(sop).n = Len(ClassOfData(sop).fieldDescriptions)
    /\ Top(sop).n >= 1
    /\ \E k \in 1..Len(sop.trace) : sop.trace[k][1] = "begin" /\ sop.trace[k][2] = TC_BLOCKDATA

\* the elements that get no handle
HandlelessTags == {TC_NULL, TC_REFERENCE, TC_BLOCKDATA, TC_BLOCKDATALONG}

\* the events logged by the step from s to t
NewEvents(s, t) == SubSeq(t.trace, Len(s.trace) + 1, Len(t.trace))

\* the step from s to t reads an element with a tag in tags
ReadsElement(s, t, tags) ==
    /\ Running(s)
    /\ Len(t.trace) > Len(s.trace)
    /\ \E k \in 1..Len(NewEvents(s, t)) :
          NewEvents(s, t)[k][1] = "begin" /\ NewEvents(s, t)[k][2] \in tags

\* the readers of the elements that get no handle
HandlelessReaders ==
    {"readNullReference", "readPrevObject", "readBlockData", "readLongBlockData"}

\* C34: reading a TC_NULL, a TC_REFERENCE, a TC_BLOCKDATA or a
\* TC_BLOCKDATALONG element assigns no handle.  A step of one of their
\* readers leaves the handle counter, the handles assigned and the list of
\* class descriptions as they were; in a step of a reader that reads such an
\* element itself, no handle is assigned once the tag of the element has
\* been taken, the counter moves only by the handles assigned before, and
\* the list of class descriptions is as it was.
C34_NoHandleForLeafElements ==
    [][/\ (Running(sop) /\ Top(sop).fn \in HandlelessReaders) =>
             /\ sop'.handleValue = sop.handleValue
             /\ sop'.classDataDescriptions = sop.classDataDescriptions
             /\ Handles(sop') = Handles(sop)
       /\ ReadsElement(sop, sop', HandlelessTags) =>
             /\ sop'.classDataDescriptions = sop.classDataDescriptions
             /\ sop'.handleValue = sop.handleValue + Cardinality(NewHandles(sop, sop'))
             /\ \A k, h \in 1..Len(NewEvents(sop, sop')) :
                   (/\ NewEvents(sop, sop')[k][1] = "begin"
                    /\ NewEvents(sop, sop')[k][2] \in HandlelessTags
                    /\ NewEvents(sop, sop')[h][1] = "handle") => h < k]_vars

\* a block of data has been read after a handle had been assigned and a
\* class description recorded
C34_Witness ==
    /\ Running(sop)
    /\ sop.trace # <<>>
    /\ Last(sop.trace) = <<"begin", TC_BLOCKDATA>>
    /\ sop.handleValue > baseWireHandle
    /\ sop.classDataDescriptions # <<>>
    /\ sop.ret = NoRet

(***************************************************************************)
(* The table of handles of the value parser: newHandle, newDeferredHandle  *)
(* with the setter it returns, and the lookup of parseReference.  None of  *)
(* them is reached from the two entry points, so the table is driven here  *)
(* by calls of its own: sop holds the table, the setters returned and not  *)
(* yet called, and what the last call was given and returned.              *)
(***************************************************************************)
\* the longest table of handles
MaxHandles == 3

\* the nil interface value
NilValue == <<"nil">>

\* the objects stored under a handle
HandleObjects == {<<"str", "a">>, <<"map", "o">>}

\* A newDeferredHandle whose setter keeps the index after the append.
newDeferredHandle_IndexAfterAppend(handles) ==
    [idx |-> Len(Append(handles, NilValue)), handles |-> Append(handles, NilValue)]

\* newDeferredHandle: idx is len(handles), a nil slot is appended; the setter
\* returned is known by the idx it has captured.
newDeferredHandle(handles) ==
    [idx |-> Len(handles), handles |-> Append(handles, NilValue)]

\* the func returned by newDeferredHandle, called with obj: handles[idx] = obj
deferredHandle(handles, idx, obj) ==
    IF idx < Len(handles) THEN [handles EXCEPT ![idx + 1] = obj]
    ELSE <<"panic: index out of range">>

\* newHandle: append obj
newHandle(handles, obj) == Append(handles, obj)

\* parseReference: the entry at refIdx - 0x7e0000 when there is one, else nil
parseReference(handles, refIdx) ==
    LET i == refIdx - baseWireHandle
    IN  IF i > -1 /\ i < Len(handles) THEN handles[i + 1] ELSE NilValue

NoHandleCall == [op |-> "none", idx |-> 0, obj |-> NilValue, ref |-> NilValue]

HandleInit ==
    /\ sop = [fn |-> "handles", handles |-> <<>>, setters |-> {}, last |-> NoHandleCall]
    /\ twin = NoTwin
    /\ ticks = 0

DoNewHandle ==
    /\ sop.fn = "handles"
    /\ Len(sop.handles) < MaxHandles
    /\ \E obj \in HandleObjects :
          sop' = [sop EXCEPT !.handles = newHandle(sop.handles, obj),
                             !.last = [NoHandleCall EXCEPT !.op = "newHandle", !.obj = obj]]
    /\ twin' = twin
    /\ ticks' = 1 - ticks

DoNewDeferredHandle ==
    /\ sop.fn = "handles"
    /\ Len(sop.handles) < MaxHandles
    /\ sop' = [sop EXCEPT
                  !.handles = newDeferredHandle(sop.handles).handles,
                  !.setters = @ \cup {newDeferredHandle(sop.handles).idx},
                  !.last = [NoHandleCall EXCEPT
                               !.op = "newDeferredHandle",
                               !.idx = newDeferredHandle(sop.handles).idx]]
    /\ twin' = twin
    /\ ticks' = 1 - ticks

DoDeferredHandle ==
    /\ sop.fn = "handles"
    /\ \E idx \in sop.setters, obj \in HandleObjects :
          sop' = [sop EXCEPT
                     !.handles = deferredHandle(sop.handles, idx, obj),
                     !.setters = @ \ {idx},
                     !.last = [NoHandleCall EXCEPT
                                  !.op = "deferredHandle", !.idx = idx, !.obj = obj]]
    /\ twin' = twin
    /\ ticks' = 1 - ticks

DoParseReference ==
    /\ sop.fn = "handles"
    /\ \E i \in 0..MaxHandles :
          sop' = [sop EXCEPT
                     !.last = [NoHandleCall EXCEPT
                                  !.op = "parseReference", !.idx = i,
                                  !.ref = parseReference(sop.handles, baseWireHandle + i)]]
    /\ twin' = twin
    /\ ticks' = 1 - ticks

HandleNext ==
    \/ DoNewHandle
    \/ DoNewDeferredHandle
    \/ DoDeferredHandle
    \/ DoParseReference

HandleSpec == HandleInit /\ [][HandleNext]_vars

\* C35: newDeferredHandle appends one nil slot, at the index the table's
\* length was; a reference to a slot whose setter has not yet been called
\* resolves to nil; the setter writes its value into its slot and leaves
\* the length of the table and every other slot as they were, whatever was
\* appended since.
C35_DeferredSlot ==
    [][/\ sop'.last.op = "newDeferredHandle" =>
             /\ sop'.handles = Append(sop.handles, NilValue)
             /\ sop'.last.idx = Len(sop.handles)
             /\ sop'.setters = sop.setters \cup {Len(sop.handles)}
             /\ Len(sop.handles) \notin sop.setters
       /\ (sop'.last.op = "parseReference" /\ sop'.last.idx \in sop.setters) =>
             /\ sop'.last.ref = NilValue
             /\ sop'.handles = sop.handles
       /\ sop'.last.op = "deferredHandle" =>
             /\ Len(sop'.handles) = Len(sop.handles)
             /\ sop'.last.idx < Len(sop.handles)
             /\ sop'.handles[sop'.last.idx + 1] = sop'.last.obj
             /\ \A k \in 1..Len(sop.handles) :
                   k # sop'.last.idx + 1 => sop'.handles[k] = sop.handles[k]
       /\ sop'.last.op = "newHandle" =>
             \A idx \in sop.setters : sop'.handles[idx + 1] = NilValue
      ]_vars

\* the setter of the first slot has been called after two more handles
\* were appended, one of them deferred and still unset
C35_Witness ==
    /\ sop.fn = "handles"
    /\ sop.last.op = "deferredHandle"
    /\ sop.last.idx = 0
    /\ Len(sop.handles) = 3
    /\ sop.handles[1] = sop.last.obj
    /\ sop.handles[2] # NilValue
    /\ sop.handles[3] = NilValue
    /\ sop.setters = {2}

(***************************************************************************)
(* The post-processors of the value parser.  knownPostProcs names          *)
(* listPostProc for ArrayList and ArrayDeque; it is called by classData,   *)
(* which no entry point reaches, so it is called here on annotations of    *)
(* its own.                                                                *)
(***************************************************************************)
\* the most annotations that follow the size block
MaxListSize == 3

\* the int32 that binary.Read takes big-endian from four bytes
Int32BigEndian(b) ==
    (IF b[1] >= 128 THEN b[1] - 256 ELSE b[1]) * 16777216
    + b[2] * 65536 + b[3] * 256 + b[4]

PostProcError == [size |-> 0, err |-> TRUE]

\* postProcSize: the int32 at offset of the byte block data[0]
postProcSize(data, offset) ==
    IF Len(data) < 1 THEN PostProcError
    ELSE IF data[1][1] # "bytes" THEN PostProcError
    ELSE IF Len(data[1][2]) < offset + 4 THEN PostProcError
    ELSE [size |-> Int32BigEndian(SubSeq(data[1][2], offset + 1, offset + 4)),
          err |-> FALSE]

NoFields == [isNil |-> TRUE, value |-> <<>>, hasValue |-> FALSE]

\* listPostProc: fields["value"] = data[1:size] when size > 1, else an
\* empty list; nil and an error when the size block is bad or
\* len(data) # size + 1.
listPostProc(fields, data) ==
    LET r == postProcSize(data, 0)
    IN  IF r.err THEN [fields |-> NoFields, err |-> TRUE]
        ELSE IF Len(data) # r.size + 1 THEN [fields |-> NoFields, err |-> TRUE]
        ELSE IF r.size > 1
             THEN [fields |-> [fields EXCEPT !.value = SubSeq(data, 2, r.size),
                                             !.hasValue = TRUE],
                   err |-> FALSE]
             ELSE [fields |-> [fields EXCEPT !.value = <<>>, !.hasValue = TRUE],
                   err |-> FALSE]

\* the first annotations: byte blocks with a size, too short, negative,
\* with bytes behind the size, and an element that is no byte block
SizeBlocks ==
    {<<"bytes", <<0, 0, 0, n>> >> : n \in 0..(MaxListSize + 1)}
    \cup {<<"bytes", <<0, 0, 0, n, 9>> >> : n \in 0..MaxListSize}
    \cup { <<"bytes", <<0, 0, 0>> >>, <<"bytes", <<255, 255, 255, 255>> >>,
           <<"bytes", <<0, 0, 1, 0>> >>, <<"str", <<0, 0, 0, 1>> >> }

ListElements == {<<"str", <<65>> >>, <<"str", <<66>> >>}

Annotations ==
    {<<>>} \cup UNION {{<<b>> \o e : b \in SizeBlocks, e \in [1..n -> ListElements]} :
                          n \in 0..MaxListSize}

\* the fields of an object before its post-processor runs
EmptyFields == [isNil |-> FALSE, value |-> <<>>, hasValue |-> FALSE]

NewPostProcCall(data) ==
    [fn |-> "listPostProc", data |-> data, returned |-> FALSE,
     fields |-> EmptyFields, err |-> FALSE]

PostProcInit ==
    /\ sop \in {NewPostProcCall(d) : d \in Annotations}
    /\ twin = NoTwin
    /\ ticks = 0

DoListPostProc ==
    /\ sop.fn = "listPostProc"
    /\ ~sop.returned
    /\ sop' = [sop EXCEPT !.returned = TRUE,
                          !.fields = listPostProc(EmptyFields, sop.data).fields,
                          !.err = listPostProc(EmptyFields, sop.data).err]
    /\ twin' = twin
    /\ ticks' = 1 - ticks

PostProcNext == DoListPostProc

PostProcSpec == PostProcInit /\ [][PostProcNext]_vars

\* the annotations begin with a byte block that holds a size at offset 0
HasSizeBlock(data) ==
    /\ Len(data) >= 1
    /\ data[1][1] = "bytes"
    /\ Len(data[1][2]) >= 4

SizeOf(data) == Int32BigEndian(SubSeq(data[1][2], 1, 4))

\* C36: listPostProc on annotations whose first element is a byte block
\* with the size n and that has n + 1 elements sets value to the n
\* annotations after the first, in order; with another number of
\* annotations it returns an error and no fields.
C36_ListValue ==
    (sop.fn = "listPostProc" /\ sop.returned /\ HasSizeBlock(sop.data)) =>
        IF Len(sop.data) = SizeOf(sop.data) + 1
        THEN /\ ~sop.err
             /\ sop.fields.hasValue
             /\ sop.fields.value = Tail(sop.data)
        ELSE sop.err /\ sop.fields = NoFields

\* what holds of listPostProc: the error cases are as stated, value has the
\* first n - 1 of the n annotations after the size block
ListValueAllButLast ==
    (sop.fn = "listPostProc" /\ sop.returned /\ HasSizeBlock(sop.data)) =>
        IF Len(sop.data) = SizeOf(sop.data) + 1
        THEN /\ ~sop.err
             /\ sop.fields.hasValue
             /\ sop.fields.value = SubSeq(sop.data, 2, SizeOf(sop.data))
        ELSE sop.err /\ sop.fields = NoFields

\* parseStream has found the magic number invalid
MagicFailed(s) == Len(Events(s, "invalidMagic")) > 0

\* the bytes parseStream takes up to and including the magic number: the
\* RMI packet type byte when there is one, and two more
PreludeBytes(s) == Len(Events(s, "rmi")) + Len(Events(s, "unknownRmi")) + 2

\* C37: once parseStream has found the magic number invalid it has
\* returned: no byte behind the two of the magic number is taken from the
\* stream, then or later, no element is begun, no handle is assigned and
\* the handle counter is 0x7E0000.
C37_StopsAtBadMagic ==
    MagicFailed(sop) =>
        /\ Last(sop.trace)[1] = "invalidMagic"
        /\ Len(Events(sop, "begin")) = 0
        /\ Len(Events(sop, "handle")) = 0
        /\ sop.handleValue = baseWireHandle
        /\ sop.data = <<>>
        /\ sop.rdPos = IF PreludeBytes(sop) <= Len(sop.buf)
                       THEN PreludeBytes(sop) ELSE Len(sop.buf)
        /\ sop.classDataDescriptions = <<>>
        /\ \A k \in 1..Len(sop.stack) : sop.stack[k].fn # "parseStream"
        /\ ~Failed(sop)

\* the walk has ended at an invalid magic number with an element unread
C37_Witness ==
    /\ MagicFailed(sop)
    /\ sop.status = "done"
    /\ Len(sop.buf) > sop.rdPos + 2
    /\ sop.buf[Len(sop.buf)] = TC_NULL

(***************************************************************************)
(* The cursor on its own: a Smooth over an input, with calls of pop, peek  *)
(* and size in any order.  sop holds the fields of the cursor and of the   *)
(* parser it reads from, the bytes pop has returned and the last call.     *)
(***************************************************************************)
\* the longest input of the cursor
MaxInput == 3

CursorBytes == {0, TC_NULL, STREAM_MAGIC1}

CursorInputs == UNION {[1..n -> CursorBytes] : n \in 0..MaxInput}

\* A Smooth on a parser made by ParseSerializedObject(buf)
NewCursor(buf) ==
    [fn |-> "Smooth", buf |-> buf, rdPos |-> 0, data |-> <<>>, nPos |-> 0,
     maxDataBlockSize |-> Len(buf), trace |-> <<>>,
     popped |-> <<>>, last |-> [op |-> "none", b |-> 0]]

CursorInit ==
    /\ sop \in {NewCursor(buf) : buf \in CursorInputs}
    /\ twin = NoTwin
    /\ ticks = 0

\* the calls so far have stayed within the input
WithinInput(s) == Len(Events(s, "eofPop")) + Len(Events(s, "eofPeek")) = 0

DoPop ==
    /\ sop.fn = "Smooth"
    /\ WithinInput(sop)
    /\ sop' = [pop(sop).s EXCEPT !.popped = Append(@, pop(sop).b),
                                 !.last = [op |-> "pop", b |-> pop(sop).b]]
    /\ twin' = twin
    /\ ticks' = 1 - ticks

DoPeek ==
    /\ sop.fn = "Smooth"
    /\ WithinInput(sop)
    /\ sop' = [peek(sop).s EXCEPT !.last = [op |-> "peek", b |-> peek(sop).b]]
    /\ twin' = twin
    /\ ticks' = 1 - ticks

DoSize ==
    /\ sop.fn = "Smooth"
    /\ sop' = [sop EXCEPT !.last = [op |-> "size", b |-> size(sop)]]
    /\ twin' = twin
    /\ ticks' = 1 - ticks

CursorNext ==
    \/ DoPop
    \/ DoPeek
    \/ DoSize

CursorSpec == CursorInit /\ [][CursorNext]_vars

\* C38: peek looks one byte ahead and takes nothing: the lookahead never
\* holds more than one byte, a pop or a peek that follows a peek returns the
\* byte the peek returned, a peek changes neither the bytes ahead nor the
\* bytes popped, and the bytes pop has returned within the input are the
\* input from its first byte on, in order.
C38_PeekIsLookahead ==
    [][/\ Len(sop'.data) <= 1
       /\ (sop.last.op = "peek" /\ sop'.last.op \in {"pop", "peek"}) =>
             sop'.last.b = sop.last.b
       /\ sop'.last.op = "peek" =>
             /\ sop'.popped = sop.popped
             /\ WithinInput(sop') => Ahead(sop') = Ahead(sop)
             /\ (WithinInput(sop') /\ Ahead(sop) # <<>>) => sop'.last.b = Head(Ahead(sop))
       /\ (sop'.last.op = "pop" /\ WithinInput(sop')) =>
             /\ sop'.popped = SubSeq(sop.buf, 1, Len(sop'.popped))
             /\ Ahead(sop') = Tail(Ahead(sop))
             /\ sop'.buf = sop.buf
      ]_vars

\* the whole input has been popped with a peek before the last pop
C38_Witness ==
    /\ sop.fn = "Smooth"
    /\ Len(sop.buf) = MaxInput
    /\ sop.popped = sop.buf
    /\ sop.last.op = "pop"
    /\ sop.nPos >= 1
    /\ sop.nPos < MaxInput
    /\ WithinInput(sop)

\* C39: within the input, size() is the length of the input less the number
\* of bytes pop has returned.
C39_SizeTracksOffset ==
    (sop.fn = "Smooth" /\ sop.last.op = "size" /\ WithinInput(sop)) =>
        sop.last.b = Len(sop.buf) - Len(sop.popped)

\* what holds of size(): the length of the input less the number of pops
\* that found their byte in the lookahead
SizeCountsLookaheadPops ==
    (sop.fn = "Smooth" /\ sop.last.op = "size") =>
        /\ sop.last.b = Len(sop.buf) - sop.nPos
        /\ sop.nPos <= Len(sop.popped)

=============================================================================
